---------------------------- MODULE Spec2Model ----------------------------
(***************************************************************************)
(* Scenario simulation and coverage-optimisation engine of the LifeFlight  *)
(* analytics backend (backend/utils/scenario_whatif_2_1.py,                *)
(* pareto_sensitivity_2_3.py, base_siting_2_2.py) and its special-base     *)
(* statistics (backend/utils/scenario/get_special_base_stats.py,           *)
(* get_range_map.py, backend/utils/heatmap.py).                            *)
(*                                                                         *)
(* Python floats are modelled as exact fractions [num, den]; den = 0 is    *)
(* NaN.  Python None is the record Null.  Coordinates are positions on a   *)
(* single meridian, counted in steps of GridMiles miles, for which the     *)
(* haversine distance is exactly the difference of the positions.          *)
(***************************************************************************)
EXTENDS Integers, Sequences, FiniteSets, TLC

VARIABLES
    catalog,    \* the city coordinates file (maine_city_coordinates.json, city_coordinates.json): city name -> latitude
    df,         \* data.csv as returned by read_data(): sequence of mission rows
    prev,       \* the simulate_scenario call before the last one (Null if none)
    last,       \* the last simulate_scenario call: its parameters and its outcome
    calls,      \* number of simulate_scenario calls served so far
    faults,     \* the (radius, sla) calls during which data.csv cannot be read
    flights,    \* FlightTransportsMaster.csv as returned by read_data(): transport rows
    args,       \* arguments of the function under test (pure-function specifications)
    ret         \* its return value, Null before the call

engine == <<catalog, df, prev, last, calls, faults, flights>>
vars == <<catalog, df, prev, last, calls, faults, flights, args, ret>>

---------------------------------------------------------------------------
(* Values *)

Null == [null |-> TRUE]

Q(n, d) == [num |-> n, den |-> d]
Whole(n) == Q(n, 1)
NaN == Q(0, 0)
isna(v) == v.den = 0
QLt(a, b) == ~isna(a) /\ ~isna(b) /\ a.num * b.den < b.num * a.den
QLe(a, b) == ~isna(a) /\ ~isna(b) /\ a.num * b.den <= b.num * a.den
QEq(a, b) == ~isna(a) /\ ~isna(b) /\ a.num * b.den = b.num * a.den
QSub(a, b) == Q(a.num * b.den - b.num * a.den, a.den * b.den)
QMul(a, b) == Q(a.num * b.num, a.den * b.den)
QDiv(a, b) == Q(a.num * b.den, a.den * b.num)
Range(s) == {s[i] : i \in 1..Len(s)}

\* Body applied to the value of v, v being computed once
Bind(v, Body(_)) == CHOOSE r \in {Body(b) : b \in {v}} : TRUE

---------------------------------------------------------------------------
(* pareto_sensitivity_2_3.calculate_pareto_frontier *)

\* "Skip invalid points": a scenario whose x or y is NaN or negative
invalid_point(s) ==
    \/ isna(s.coverage_rate)
    \/ isna(s.avg_response_time)
    \/ QLt(s.coverage_rate, Whole(0))
    \/ QLt(s.avg_response_time, Whole(0))

valid_point(s) == ~invalid_point(s)

extract_points(scenarios) ==
    LET kept == SelectSeq(scenarios, valid_point)
    IN  [i \in 1..Len(kept) |->
            [scenario |-> kept[i], x |-> kept[i].coverage_rate, y |-> kept[i].avg_response_time]]

\* list.sort(key=lambda p: p['x']): stable, ascending
RECURSIVE sort_by_x(_)
sort_by_x(points) ==
    IF points = <<>> THEN <<>>
    ELSE LET init == sort_by_x(SubSeq(points, 1, Len(points) - 1))
             p    == points[Len(points)]
             k    == Cardinality({i \in 1..Len(init) : QLe(init[i].x, p.x)})
         IN  SubSeq(init, 1, k) \o <<p>> \o SubSeq(init, k + 1, Len(init))

dominates_strict_only(other, point, minimize_y) ==
    IF minimize_y
    THEN QLt(point.x, other.x) /\ QLt(other.y, point.y)
    ELSE QLt(point.x, other.x) /\ QLt(point.y, other.y)

dominates_weak(other, point, minimize_y) ==
    IF minimize_y
    THEN QLe(point.x, other.x) /\ QLe(other.y, point.y)
    ELSE QLe(point.x, other.x) /\ QLe(point.y, other.y)

dominates(other, point, minimize_y) ==
    IF minimize_y
    THEN \/ QLe(point.x, other.x) /\ QLt(other.y, point.y)
         \/ QLt(point.x, other.x) /\ QLe(other.y, point.y)
    ELSE \/ QLe(point.x, other.x) /\ QLt(point.y, other.y)
         \/ QLt(point.x, other.x) /\ QLe(point.y, other.y)

is_dominated(points, i, minimize_y) ==
    \E j \in 1..Len(points) : j # i /\ dominates(points[j], points[i], minimize_y)

calculate_pareto_frontier(scenarios, minimize_y) ==
    IF Len(scenarios) = 0 THEN [frontier |-> <<>>, dominated |-> <<>>]
    ELSE LET points == sort_by_x(extract_points(scenarios))
             idx    == [i \in 1..Len(points) |-> i]
             par    == SelectSeq(idx, LAMBDA i : ~is_dominated(points, i, minimize_y))
             dom    == SelectSeq(idx, LAMBDA i : is_dominated(points, i, minimize_y))
             pareto_points == sort_by_x([k \in 1..Len(par) |-> points[par[k]]])
         IN  IF Len(points) = 0
             THEN [frontier |-> <<>>, dominated |-> scenarios]
             ELSE [frontier  |-> [k \in 1..Len(pareto_points) |-> pareto_points[k].scenario],
                   dominated |-> [k \in 1..Len(dom) |-> points[dom[k]].scenario]]

---------------------------------------------------------------------------
(* Specification of calculate_pareto_frontier: the input list is drawn    *)
(* from the lists of at most MaxScenarios scenarios.                      *)

MaxScenarios == 3

CoverageValues == {Whole(50), Whole(70), Whole(0 - 1), NaN}
ResponseValues == {Whole(15), Whole(20), Whole(25)}
ParetoInputs   == [coverage_rate : CoverageValues, avg_response_time : ResponseValues]

SeqsUpTo(S, n) == UNION {[1..k -> S] : k \in 0..n}

Idle == catalog = <<>> /\ df = <<>> /\ prev = Null /\ last = Null /\ calls = 0 /\ faults = {}
        /\ flights = <<>>

InitPareto ==
    /\ Idle
    /\ args \in [scenarios : SeqsUpTo(ParetoInputs, MaxScenarios), minimize_y : BOOLEAN]
    /\ ret = Null

CallParetoFrontier ==
    /\ ret = Null
    /\ "scenarios" \in DOMAIN args
    /\ ret' = calculate_pareto_frontier(args.scenarios, args.minimize_y)
    /\ UNCHANGED <<engine, args>>

NextPareto == CallParetoFrontier

SpecPareto == InitPareto /\ [][NextPareto]_vars

---------------------------------------------------------------------------
(* Claims on the Pareto frontier *)

PointA == [coverage_rate |-> Whole(50), avg_response_time |-> Whole(20)]
PointB == [coverage_rate |-> Whole(70), avg_response_time |-> Whole(15)]
PointC == [coverage_rate |-> Whole(70), avg_response_time |-> Whole(25)]

ThreePointCase ==
    /\ ret # Null
    /\ args.minimize_y
    /\ Len(args.scenarios) = 3
    /\ Range(args.scenarios) = {PointA, PointB, PointC}

\* C1 (as stated): for exactly the points A(50,20), B(70,15), C(70,25) the
\* frontier contains A and B and does not contain C.
C1_FrontierHasAandB ==
    ThreePointCase =>
        /\ PointA \in Range(ret.frontier)
        /\ PointB \in Range(ret.frontier)
        /\ PointC \notin Range(ret.frontier)

\* C1 (amended): for exactly the points A(50,20), B(70,15), C(70,25) the
\* frontier is B alone; A and C are both dominated (B has more coverage and a
\* lower response time than A).
C1_FrontierIsB ==
    ThreePointCase =>
        /\ ret.frontier = <<PointB>>
        /\ Range(ret.dominated) = {PointA, PointC}

C1_Witness ==
    /\ ThreePointCase
    /\ args.scenarios = <<PointA, PointB, PointC>>
    /\ Len(ret.dominated) = 2

AllValid(scenarios) ==
    \A i \in 1..Len(scenarios) :
        /\ scenarios[i].coverage_rate.den > 0 /\ scenarios[i].coverage_rate.num >= 0
        /\ scenarios[i].avg_response_time.den > 0 /\ scenarios[i].avg_response_time.num >= 0

\* Q beats P under "maximise x, minimise y", written on the numerators
\* (every value of ParetoInputs has denominator 1)
Beats(q, p) ==
    \/ q.coverage_rate.num >= p.coverage_rate.num /\ q.avg_response_time.num < p.avg_response_time.num
    \/ q.coverage_rate.num > p.coverage_rate.num /\ q.avg_response_time.num <= p.avg_response_time.num

---------------------------------------------------------------------------
(* scenario_whatif_2_1: coverage, capacity, SLA, unmet demand, cost *)

MaxPos == 1         \* latitudes of the catalog are 0..MaxPos grid steps
GridMiles == 50     \* miles per grid step

NoneCoord == 0 - 1  \* a null latitude in the coordinates file
NaT == 0 - 1        \* a date that pd.to_datetime(errors='coerce') could not parse
BadTime == 0 - 1    \* a time of day that does not parse as %H:%M

CityNames == {"BANGOR", "ORONO", "PORTLAND"}
CatalogOrder == <<"BANGOR", "ORONO", "PORTLAND">>    \* key order of the JSON file

existed_bases == <<"BANGOR", "LEWISTON", "SANFORD">>
top_10_cities == <<"ROCKPORT", "AUGUSTA", "BELFAST", "WATERVILLE", "SKOWHEGAN",
                   "BRIDGTON", "PRESQUE ISLE", "PORTLAND", "BIDDEFORD", "AUBURN">>

build_base_list(cities, coords_lookup) ==
    LET found == SelectSeq(cities, LAMBDA city : city \in DOMAIN coords_lookup)
    IN  [i \in 1..Len(found) |-> [name |-> found[i], latitude |-> coords_lookup[found[i]]]]

get_base_locations ==
    [existing_bases  |-> build_base_list(existed_bases, catalog),
     candidate_bases |-> build_base_list(
         SelectSeq(top_10_cities, LAMBDA city : city \notin Range(existed_bases)), catalog)]

\* haversine on one meridian: 3959 * |dlat|
distance_miles(lat1, lat2) ==
    GridMiles * (IF lat1 >= lat2 THEN lat1 - lat2 ELSE lat2 - lat1)

within_radius_strict(d, service_radius_miles) == d < service_radius_miles

within_radius_flipped(d, service_radius_miles) == d > service_radius_miles

within_radius(d, service_radius_miles) == d <= service_radius_miles

\* the cities of the file in key order, null coordinates skipped
located_cities(city_coordinates) ==
    SelectSeq(CatalogOrder, LAMBDA city :
        city \in DOMAIN city_coordinates /\ city_coordinates[city] # NoneCoord)

\* radians(base_lat) raises TypeError on a null base latitude as soon as one
\* city with coordinates is visited
coverage_raises(base_locations, city_coordinates) ==
    /\ \E i \in 1..Len(base_locations) : base_locations[i].latitude = NoneCoord
    /\ located_cities(city_coordinates) # <<>>

calculate_base_coverage(base_locations, service_radius_miles, city_coordinates) ==
    [base_name \in {base_locations[i].name : i \in 1..Len(base_locations)} |->
        LET base == CHOOSE b \in Range(base_locations) : b.name = base_name
        IN  SelectSeq(located_cities(city_coordinates), LAMBDA city :
                within_radius(distance_miles(base.latitude, city_coordinates[city]),
                              service_radius_miles))]

\* with the crew factor min(1.0, crews_per_vehicle / 2.0) that the code computes
\* and leaves out of the product
estimate_mission_capacity_crew_factor(fleet_size, crews_per_vehicle, avg_missions_per_vehicle_per_day) ==
    IF crews_per_vehicle >= 2
    THEN Whole(fleet_size * avg_missions_per_vehicle_per_day * 365)
    ELSE Q(fleet_size * avg_missions_per_vehicle_per_day * 365 * crews_per_vehicle, 2)

estimate_mission_capacity(fleet_size, crews_per_vehicle, avg_missions_per_vehicle_per_day) ==
    Whole(fleet_size * avg_missions_per_vehicle_per_day * 365)

response_time_minutes_no_rollover(row) ==
    IF row.tdate = NaT \/ row.disptime = BadTime \/ row.enrtime = BadTime THEN Null
    ELSE Whole(row.enrtime - row.disptime)

\* minutes between disptime and enrtime on the date tdate; Null when one of
\* the three does not parse
response_time_minutes(row) ==
    IF row.tdate = NaT \/ row.disptime = BadTime \/ row.enrtime = BadTime THEN Null
    ELSE IF row.enrtime < row.disptime
         THEN Whole(row.enrtime + 1440 - row.disptime)
         ELSE Whole(row.enrtime - row.disptime)

RECURSIVE SumSeq(_)
SumSeq(s) == IF s = <<>> THEN 0 ELSE s[1] + SumSeq(Tail(s))

rt_within_strict(rt, sla_target_minutes) == rt < sla_target_minutes

rt_within(rt, sla_target_minutes) == rt <= sla_target_minutes

\* with the average taken over the response times within the target only
calculate_sla_attainment_avg_within(coverage_cities, data, sla_target_minutes) ==
    LET covered_df == SelectSeq(data, LAMBDA row : row.city \in coverage_cities)
        response_times == [i \in 1..Len(covered_df) |-> response_time_minutes(covered_df[i])]
        valid    == SelectSeq(response_times, LAMBDA rt : rt # Null)
        valid_rt == [i \in 1..Len(valid) |-> valid[i].num]
        kept == SelectSeq(valid_rt, LAMBDA rt : rt_within(rt, sla_target_minutes))
        total == Len(valid_rt)
    IN  IF Len(covered_df) = 0
        THEN [attainment_rate |-> Whole(0), total_missions |-> 0, within_sla |-> 0,
              avg_response_time_minutes |-> Whole(0)]
        ELSE IF Len(valid_rt) = 0
        THEN [attainment_rate |-> Whole(0), total_missions |-> Len(covered_df), within_sla |-> 0,
              avg_response_time_minutes |-> Whole(0)]
        ELSE [attainment_rate |-> Q(Len(kept) * 100, total), total_missions |-> total,
              within_sla |-> Len(kept),
              avg_response_time_minutes |->
                  IF Len(kept) = 0 THEN Whole(0) ELSE Q(SumSeq(kept), Len(kept))]

calculate_sla_attainment(coverage_cities, data, sla_target_minutes) ==
    LET covered_df == SelectSeq(data, LAMBDA row : row.city \in coverage_cities)
        response_times == [i \in 1..Len(covered_df) |-> response_time_minutes(covered_df[i])]
        valid    == SelectSeq(response_times, LAMBDA rt : rt # Null)
        valid_rt == [i \in 1..Len(valid) |-> valid[i].num]
        within_sla == Len(SelectSeq(valid_rt, LAMBDA rt : rt_within(rt, sla_target_minutes)))
        total == Len(valid_rt)
    IN  IF Len(covered_df) = 0
        THEN [attainment_rate |-> Whole(0), total_missions |-> 0, within_sla |-> 0,
              avg_response_time_minutes |-> Whole(0)]
        ELSE IF Len(valid_rt) = 0
        THEN [attainment_rate |-> Whole(0), total_missions |-> Len(covered_df), within_sla |-> 0,
              avg_response_time_minutes |-> Whole(0)]
        ELSE [attainment_rate |-> Q(within_sla * 100, total), total_missions |-> total,
              within_sla |-> within_sla,
              avg_response_time_minutes |-> Q(SumSeq(valid_rt), total)]

unmet_unclamped(covered_demand, capacity) == QSub(covered_demand, capacity)

unmet_clamped(covered_demand, capacity) ==
    IF QLt(QSub(covered_demand, capacity), Whole(0)) THEN Whole(0)
    ELSE QSub(covered_demand, capacity)

estimate_unmet_demand_uncovered(historical_missions, capacity, coverage_rate) ==
    LET covered_demand == Whole(historical_missions)
        unmet == unmet_clamped(covered_demand, capacity)
        unmet_rate == IF QLt(Whole(0), covered_demand)
                      THEN QMul(QDiv(unmet, covered_demand), Whole(100))
                      ELSE Whole(0)
    IN  [unmet_missions |-> unmet, unmet_rate |-> unmet_rate,
         covered_demand |-> covered_demand, capacity |-> capacity]

estimate_unmet_demand(historical_missions, capacity, coverage_rate) ==
    LET covered_demand == QMul(Whole(historical_missions), coverage_rate)
        unmet == unmet_clamped(covered_demand, capacity)
        unmet_rate == IF QLt(Whole(0), covered_demand)
                      THEN QMul(QDiv(unmet, covered_demand), Whole(100))
                      ELSE Whole(0)
    IN  [unmet_missions |-> unmet, unmet_rate |-> unmet_rate,
         covered_demand |-> covered_demand, capacity |-> capacity]

crew_cost_per_vehicle_only(fleet_size, crews_per_vehicle, crew_cost_per_year) ==
    crews_per_vehicle * crew_cost_per_year

crew_cost_of(fleet_size, crews_per_vehicle, crew_cost_per_year) ==
    fleet_size * crews_per_vehicle * crew_cost_per_year

estimate_cost(fleet_size, crews_per_vehicle, base_count, base_operational_cost_per_year, vehicle_cost_per_year, crew_cost_per_year) ==
    LET base_cost    == base_count * base_operational_cost_per_year
        vehicle_cost == fleet_size * vehicle_cost_per_year
        crew_cost    == crew_cost_of(fleet_size, crews_per_vehicle, crew_cost_per_year)
        total_cost   == base_cost + vehicle_cost + crew_cost
    IN  [total_cost |-> total_cost, base_cost |-> base_cost, vehicle_cost |-> vehicle_cost,
         crew_cost |-> crew_cost, cost_per_mission |-> Q(total_cost, 1000)]

\* the defaults of the three rate parameters of estimate_cost
default_base_operational_cost_per_year == 500000
default_vehicle_cost_per_year == 100000
default_crew_cost_per_year == 80000

read_data_consumed == IF last = Null THEN df ELSE <<>>

\* getData.read_data(): the mission file is read afresh by every call
read_data == df

\* pd.read_csv raises when the file cannot be read during this call
read_data_raises(p) == <<p.service_radius_miles, p.sla_target_minutes>> \in faults

year_max(data) ==
    LET years == {data[i].tdate : i \in 1..Len(data)} \ {NaT}
    IN  IF years = {} THEN NaT ELSE CHOOSE y \in years : \A z \in years : z <= y

simulate_scenario(p) ==
    LET city_coords == catalog
        data == read_data
        location_data == get_base_locations
        all_bases == location_data.existing_bases \o location_data.candidate_bases
        base_coords == SelectSeq(all_bases, LAMBDA b : b.name \in Range(p.base_locations))
        coverage == calculate_base_coverage(base_coords, p.service_radius_miles, city_coords)
        all_covered_cities == UNION {Range(coverage[b]) : b \in DOMAIN coverage}
        n_cities == Cardinality(DOMAIN city_coords)
        coverage_rate == IF n_cities > 0 THEN Q(Cardinality(all_covered_cities), n_cities)
                         ELSE Whole(0)
        last_year == SelectSeq(data, LAMBDA row : row.tdate # NaT /\ row.tdate = year_max(data))
        last_year_missions == Len(last_year)
        historical_missions == Len(data)
        capacity == estimate_mission_capacity(p.fleet_size, p.crews_per_vehicle,
                                              p.missions_per_vehicle_per_day)
        sla_metrics == calculate_sla_attainment(all_covered_cities, data, p.sla_target_minutes)
        unmet_metrics == estimate_unmet_demand(last_year_missions, capacity, coverage_rate)
        cost_metrics == estimate_cost(p.fleet_size, p.crews_per_vehicle, Len(p.base_locations),
                           default_base_operational_cost_per_year,
                           default_vehicle_cost_per_year, default_crew_cost_per_year)
    IN  IF read_data_raises(p)
        THEN [raised |-> "OSError"]
        ELSE IF coverage_raises(base_coords, city_coords)
        THEN [raised |-> "TypeError"]
        ELSE
        [scenario_params |-> [fleet_size |-> p.fleet_size,
                              crews_per_vehicle |-> p.crews_per_vehicle,
                              base_locations |-> p.base_locations,
                              service_radius_miles |-> p.service_radius_miles,
                              sla_target_minutes |-> p.sla_target_minutes],
         kpis |-> [missions |-> [historical_annual |-> historical_missions,
                                 last_year_missions |-> last_year_missions,
                                 estimated_capacity |-> capacity,
                                 covered_demand |-> unmet_metrics.covered_demand],
                   sla_attainment |-> [rate_percent |-> sla_metrics.attainment_rate,
                                       within_sla |-> sla_metrics.within_sla,
                                       total_evaluated |-> sla_metrics.total_missions,
                                       avg_response_time_minutes |-> sla_metrics.avg_response_time_minutes],
                   unmet_demand |-> [missions |-> unmet_metrics.unmet_missions,
                                     rate_percent |-> unmet_metrics.unmet_rate],
                   cost |-> cost_metrics,
                   coverage |-> [cities_covered |-> Cardinality(all_covered_cities),
                                 total_cities |-> n_cities,
                                 coverage_rate |-> QMul(coverage_rate, Whole(100))]],
         coverage_details |-> [b \in DOMAIN coverage |-> Len(coverage[b])],
         coverage |-> coverage]

raised(result) == "raised" \in DOMAIN result

---------------------------------------------------------------------------
(* Specification of the simulation engine: the coordinates file and the   *)
(* mission file are fixed for the run; every step is one call of          *)
(* simulate_scenario, and the last two calls are kept.                    *)

MaxMissions == 2
MaxCalls == 2

Coords == 0..MaxPos \cup {NoneCoord}
Catalogs == UNION {[S -> Coords] : S \in SUBSET CityNames}

MissionRows == {[city |-> "BANGOR", tdate |-> 2023, disptime |-> 0, enrtime |-> 20],
                [city |-> "ORONO", tdate |-> 2024, disptime |-> 1430, enrtime |-> 20]}
Datasets == SeqsUpTo(MissionRows, MaxMissions)

BaseLists == {<<>>, <<"BANGOR">>, <<"BANGOR", "PORTLAND">>, <<"PORTLAND", "NOWHERE">>}
Requests ==
    [fleet_size : {3}, crews_per_vehicle : {1, 2}, missions_per_vehicle_per_day : {3},
     base_locations : BaseLists, service_radius_miles : {10, 50}, sla_target_minutes : {20}]

Init ==
    /\ catalog \in Catalogs
    /\ df \in Datasets
    /\ prev = Null
    /\ last = Null
    /\ calls = 0
    /\ faults = {}
    /\ flights = <<>>
    /\ args = Null
    /\ ret = Null

SimulateScenario(p) ==
    /\ calls < MaxCalls
    /\ calls' = calls + 1
    /\ prev' = last
    /\ last' = [params |-> p, result |-> simulate_scenario(p)]
    /\ UNCHANGED <<catalog, df, faults, flights, args, ret>>

Next == \E p \in Requests : SimulateScenario(p)

Spec == Init /\ [][Next]_vars

---------------------------------------------------------------------------
(* Claims on the simulation engine *)

Succeeded(call) == call # Null /\ "kpis" \in DOMAIN call.result

CoveredBy(call) == UNION {Range(call.result.coverage[b]) : b \in DOMAIN call.result.coverage}

\* miles between two catalog entries, from the file itself
Miles(a, b) == GridMiles * (IF catalog[a] >= catalog[b] THEN catalog[a] - catalog[b]
                            ELSE catalog[b] - catalog[a])

C4_CoverageMonotoneInRadius ==
    (/\ Succeeded(prev) /\ Succeeded(last)
     /\ prev.params.base_locations = last.params.base_locations
     /\ prev.params.service_radius_miles <= last.params.service_radius_miles) =>
        /\ CoveredBy(prev) \subseteq CoveredBy(last)
        /\ prev.result.kpis.coverage.cities_covered <= last.result.kpis.coverage.cities_covered
        /\ QLe(prev.result.kpis.coverage.coverage_rate, last.result.kpis.coverage.coverage_rate)

C4_Witness ==
    /\ Succeeded(prev) /\ Succeeded(last)
    /\ prev.params.base_locations = last.params.base_locations
    /\ prev.params.service_radius_miles < last.params.service_radius_miles
    /\ prev.result.kpis.coverage.cities_covered = 1
    /\ last.result.kpis.coverage.cities_covered = 3

ExampleScenario(call) ==
    /\ Succeeded(call)
    /\ call.params.base_locations = <<"BANGOR", "PORTLAND">>
    /\ call.params.service_radius_miles = 50
    /\ call.params.sla_target_minutes = 20
    /\ call.params.fleet_size = 3
    /\ call.params.missions_per_vehicle_per_day = 3

\* C10: for bases [BANGOR, PORTLAND], radius 50, SLA target 20, fleet 3,
\* 3 missions per vehicle per day, the estimated capacity is 3285 whatever the
\* crew count, and with 2 crews per vehicle the total cost is 1,780,000.
C10_ExampleCapacityAndCost ==
    ExampleScenario(last) =>
        /\ last.result.kpis.missions.estimated_capacity = Whole(3285)
        /\ last.params.crews_per_vehicle = 2 =>
               /\ last.result.kpis.cost.total_cost = 1780000
               /\ last.result.kpis.cost.base_cost = 1000000
               /\ last.result.kpis.cost.vehicle_cost = 300000
               /\ last.result.kpis.cost.crew_cost = 480000

C10_Witness ==
    /\ ExampleScenario(last) /\ last.params.crews_per_vehicle = 2
    /\ ExampleScenario(prev) /\ prev.params.crews_per_vehicle = 1
    /\ last.result.kpis.cost.total_cost = 1780000

---------------------------------------------------------------------------
(* Specification and claim of calculate_sla_attainment *)

MaxSlaRows == 2

SlaRows == [city : {"BANGOR", "ORONO"}, tdate : {2024, NaT},
            disptime : {0, 1430}, enrtime : {10, 20, BadTime}]

InitSla ==
    /\ Idle
    /\ args \in [coverage_cities : {{}, {"BANGOR"}, {"BANGOR", "ORONO"}},
                 data : SeqsUpTo(SlaRows, MaxSlaRows),
                 sla_target_minutes : {15, 20}]
    /\ ret = Null

CallSlaAttainment ==
    /\ ret = Null
    /\ ret' = calculate_sla_attainment(args.coverage_cities, args.data, args.sla_target_minutes)
    /\ UNCHANGED <<engine, args>>

NextSla == CallSlaAttainment

SpecSla == InitSla /\ [][NextSla]_vars

\* rows in scope whose three time fields parse
ValidRows ==
    {i \in 1..Len(args.data) :
        /\ args.data[i].city \in args.coverage_cities
        /\ args.data[i].tdate # NaT
        /\ args.data[i].disptime # BadTime
        /\ args.data[i].enrtime # BadTime}

Minutes(i) == (args.data[i].enrtime - args.data[i].disptime) % 1440

\* C5: within_sla is the number of valid response times <= the target, a
\* response time equal to the target included, and attainment_rate is
\* within_sla / count_valid * 100.
C5_SlaBoundaryInclusive ==
    (ret # Null /\ ValidRows # {}) =>
        LET within == {i \in ValidRows : Minutes(i) <= args.sla_target_minutes}
        IN  /\ ret.within_sla = Cardinality(within)
            /\ ret.total_missions = Cardinality(ValidRows)
            /\ ret.attainment_rate.den > 0
            /\ ret.attainment_rate.num * Cardinality(ValidRows)
                   = Cardinality(within) * 100 * ret.attainment_rate.den

C5_Witness ==
    /\ ret # Null
    /\ ValidRows = {1, 2}
    /\ Minutes(1) = args.sla_target_minutes
    /\ Minutes(2) > args.sla_target_minutes
    /\ ret.within_sla = 1
    /\ ret.attainment_rate = Q(100, 2)

---------------------------------------------------------------------------
(* Specification and claim of estimate_unmet_demand *)

MaxHistorical == 4
MaxCapacity == 3
MaxCities == 3

\* coverage rates covered / total of a catalog of at most MaxCities cities
CoverageRates ==
    {r \in {Q(n, d) : n \in 0..MaxCities, d \in 1..MaxCities} : r.num <= r.den}

InitUnmet ==
    /\ Idle
    /\ args \in [historical_missions : 0..MaxHistorical,
                 capacity : {Whole(c) : c \in 0..MaxCapacity},
                 coverage_rate : CoverageRates]
    /\ ret = Null

CallUnmetDemand ==
    /\ ret = Null
    /\ ret' = estimate_unmet_demand(args.historical_missions, args.capacity, args.coverage_rate)
    /\ UNCHANGED <<engine, args>>

NextUnmet == CallUnmetDemand

SpecUnmet == InitUnmet /\ [][NextUnmet]_vars

\* (historical * coverage_rate - capacity) times the denominator of the rate
ExcessTimesDen ==
    args.historical_missions * args.coverage_rate.num - args.capacity.num * args.coverage_rate.den

\* C6: unmet_missions = max(0, historical * coverage_rate - capacity) >= 0, and
\* unmet_rate = unmet / covered_demand * 100 lies in [0, 100] and is 0 when
\* covered_demand is 0.
C6_UnmetNeverNegative ==
    ret # Null =>
        LET covered_num == args.historical_missions * args.coverage_rate.num
            unmet_num   == IF ExcessTimesDen > 0 THEN ExcessTimesDen ELSE 0
        IN  /\ QEq(ret.unmet_missions, Q(unmet_num, args.coverage_rate.den))
            /\ QLe(Whole(0), ret.unmet_missions)
            /\ QLe(Whole(0), ret.unmet_rate) /\ QLe(ret.unmet_rate, Whole(100))
            /\ covered_num = 0 => ret.unmet_rate = Whole(0)
            /\ covered_num > 0 => QEq(ret.unmet_rate, Q(unmet_num * 100, covered_num))

C6_Witness ==
    /\ ret # Null
    /\ args.historical_missions = 2 /\ args.coverage_rate = Q(1, 2) /\ args.capacity = Whole(3)
    /\ ret.unmet_missions = Whole(0)
    /\ ret.unmet_rate.num = 0

---------------------------------------------------------------------------
(* base_siting_2_2.calculate_sla_lift, its specification and claim *)

lift_is_nonzero(sla_lift) == sla_lift.num # 0

lift_is_positive(sla_lift) == QLt(Whole(0), sla_lift)

calculate_sla_lift(before_scenario, after_scenario) ==
    LET before_sla == before_scenario.kpis.sla_attainment.rate_percent
        after_sla  == after_scenario.kpis.sla_attainment.rate_percent
        sla_lift   == QSub(after_sla, before_sla)
        sla_lift_percent == IF QLt(Whole(0), before_sla)
                            THEN QMul(QDiv(sla_lift, before_sla), Whole(100))
                            ELSE Whole(0)
        coverage_lift == QSub(after_scenario.kpis.coverage.coverage_rate,
                              before_scenario.kpis.coverage.coverage_rate)
        incremental_cost == after_scenario.kpis.cost.total_cost
                                - before_scenario.kpis.cost.total_cost
        cost_per_sla_point == IF lift_is_positive(sla_lift)
                              THEN QDiv(Whole(incremental_cost), sla_lift)
                              ELSE Null
    IN  [sla_lift_absolute |-> sla_lift, sla_lift_percent |-> sla_lift_percent,
         coverage_lift |-> coverage_lift, incremental_cost |-> incremental_cost,
         cost_per_sla_point |-> cost_per_sla_point]

LiftBundles ==
    [kpis : [sla_attainment : [rate_percent : {Whole(0), Whole(50), Q(200, 3), Whole(100)}],
             coverage : [coverage_rate : {Whole(50), Whole(100)}],
             cost : [total_cost : {1280000, 1780000}]]]

InitLift ==
    /\ Idle
    /\ args \in [before_scenario : LiftBundles, after_scenario : LiftBundles]
    /\ ret = Null

CallSlaLift ==
    /\ ret = Null
    /\ ret' = calculate_sla_lift(args.before_scenario, args.after_scenario)
    /\ UNCHANGED <<engine, args>>

NextLift == CallSlaLift

SpecLift == InitLift /\ [][NextLift]_vars

\* numerator of after.sla% - before.sla% over the positive denominator
\* AfterDen * BeforeDen
LiftNum ==
    args.after_scenario.kpis.sla_attainment.rate_percent.num
        * args.before_scenario.kpis.sla_attainment.rate_percent.den
    - args.before_scenario.kpis.sla_attainment.rate_percent.num
        * args.after_scenario.kpis.sla_attainment.rate_percent.den

LiftDen ==
    args.after_scenario.kpis.sla_attainment.rate_percent.den
        * args.before_scenario.kpis.sla_attainment.rate_percent.den

\* C7: cost_per_sla_point is incremental_cost / sla_lift when after.sla% >
\* before.sla% and null when after.sla% <= before.sla%; it is never a ratio
\* over a negative or zero lift.
C7_CostPerSlaPointGuard ==
    ret # Null =>
        /\ LiftNum > 0 =>
               /\ ret.cost_per_sla_point # Null
               /\ ret.cost_per_sla_point.den # 0
               /\ ret.cost_per_sla_point.num * LiftNum
                      = (args.after_scenario.kpis.cost.total_cost
                            - args.before_scenario.kpis.cost.total_cost)
                        * LiftDen * ret.cost_per_sla_point.den
        /\ LiftNum <= 0 => ret.cost_per_sla_point = Null

C7_Witness ==
    /\ ret # Null
    /\ LiftNum < 0
    /\ ret.incremental_cost = 500000
    /\ ret.cost_per_sla_point = Null
    /\ QLt(ret.sla_lift_absolute, Whole(0))

---------------------------------------------------------------------------
(* pareto_sensitivity_2_3: scenario grid, weighted pick, sensitivity analysis *)

\* np.arange(start, stop, step).tolist() and list(range(start, stop, step))
\* for whole numbers and a positive step
arange(start, stop, step) ==
    LET n == IF stop > start THEN (stop - start + step - 1) \div step ELSE 0
    IN  [i \in 1..n |-> start + (i - 1) * step]

range_exclusive(lo, hi, step) == arange(lo, hi, step)

\* the values from lo to hi + step (excluded) in steps of step
range_with_upper(lo, hi, step) == arange(lo, hi + step, step)

\* the row appended for one (radius, sla) pair, or a failed marker when
\* simulate_scenario raised and the pair is skipped
scenario_row(radius, sla, result) ==
    IF raised(result) THEN [radius |-> radius, sla_target |-> sla, failed |-> TRUE]
    ELSE [radius |-> radius,
          sla_target |-> sla,
          coverage_rate |-> result.kpis.coverage.coverage_rate,
          sla_attainment |-> result.kpis.sla_attainment.rate_percent,
          avg_response_time |-> result.kpis.sla_attainment.avg_response_time_minutes,
          unmet_demand |-> result.kpis.unmet_demand.missions,
          total_cost |-> result.kpis.cost.total_cost,
          cities_covered |-> result.kpis.coverage.cities_covered,
          full_result |-> result]

appended_even_if_failed(row) == TRUE

\* "except Exception: continue": a failed pair leaves no row in the list
appended(row) == "failed" \notin DOMAIN row

generate_scenario_grid(base_locations, radius_range, sla_range, fleet_size, crews_per_vehicle, missions_per_vehicle_per_day) ==
    LET n_sla == Len(sla_range)
        cell(k) ==
            LET radius == radius_range[((k - 1) \div n_sla) + 1]
                sla    == sla_range[((k - 1) % n_sla) + 1]
            IN  Bind(simulate_scenario(
                         [fleet_size |-> fleet_size,
                          crews_per_vehicle |-> crews_per_vehicle,
                          missions_per_vehicle_per_day |-> missions_per_vehicle_per_day,
                          base_locations |-> base_locations,
                          service_radius_miles |-> radius,
                          sla_target_minutes |-> sla]),
                     LAMBDA result : scenario_row(radius, sla, result))
    IN  Bind([k \in 1..(Len(radius_range) * n_sla) |-> cell(k)],
             LAMBDA cells : SelectSeq(cells, appended))

RECURSIVE Gcd(_, _)
Gcd(a, b) == IF b = 0 THEN a ELSE Gcd(b, a % b)

\* the same value in lowest terms
Reduce(q) ==
    LET g == Gcd(IF q.num < 0 THEN 0 - q.num ELSE q.num, q.den)
    IN  IF g = 0 THEN q
        ELSE IF q.num < 0 THEN Q(0 - ((0 - q.num) \div g), q.den \div g)
        ELSE Q(q.num \div g, q.den \div g)

QAdd(a, b) == Reduce(Q(a.num * b.den + b.num * a.den, a.den * b.den))

calculate_weighted_score(scenario, weights) ==
    LET coverage == Reduce(QDiv(scenario.coverage_rate, Whole(100)))
        sla_attainment == Reduce(QDiv(scenario.sla_attainment, Whole(100)))
        cost == IF scenario.total_cost > 0
                THEN IF scenario.total_cost >= 10000000 THEN Whole(0)
                     ELSE Reduce(QSub(Whole(1), Reduce(Q(scenario.total_cost, 10000000))))
                ELSE Whole(1)
    IN  QAdd(QAdd(Reduce(QMul(weights.population, coverage)),
                  Reduce(QMul(weights.sla, sla_attainment))),
             Reduce(QMul(weights.cost, cost)))

find_optimal_scenario_last(scenarios, weights) ==
    IF Len(scenarios) = 0 THEN Null
    ELSE LET score(i) == calculate_weighted_score(scenarios[i], weights)
             best == CHOOSE i \in 1..Len(scenarios) :
                        /\ \A j \in 1..Len(scenarios) : QLe(score(j), score(i))
                        /\ \A j \in (i + 1)..Len(scenarios) : QLt(score(j), score(i))
         IN  scenarios[best]

\* max(scored_scenarios, key=score): the first scenario with the highest score
find_optimal_scenario(scenarios, weights) ==
    IF Len(scenarios) = 0 THEN Null
    ELSE LET score(i) == calculate_weighted_score(scenarios[i], weights)
             best == CHOOSE i \in 1..Len(scenarios) :
                        /\ \A j \in 1..Len(scenarios) : QLe(score(j), score(i))
                        /\ \A j \in 1..(i - 1) : QLt(score(j), score(i))
         IN  scenarios[best]

plot_point(s) ==
    [id |-> <<s.radius, s.sla_target>>, radius |-> s.radius, sla_target |-> s.sla_target,
     x |-> s.coverage_rate, y |-> s.avg_response_time,
     coverage_rate |-> s.coverage_rate, sla_attainment |-> s.sla_attainment,
     avg_response_time |-> s.avg_response_time, total_cost |-> s.total_cost,
     unmet_demand |-> s.unmet_demand]

SeqMin(s) == CHOOSE v \in Range(s) : \A w \in Range(s) : v <= w
SeqMax(s) == CHOOSE v \in Range(s) : \A w \in Range(s) : w <= v

\* the dictionary returned for a non-empty grid
sensitivity_result(a, base_locations, radius_range, sla_range, all_scenarios, pareto) ==
    LET optimal_scenario == IF a.weights = <<>> THEN Null
                            ELSE find_optimal_scenario(all_scenarios, a.weights[1])
    IN  [pareto_frontier |-> [i \in 1..Len(pareto.frontier) |-> plot_point(pareto.frontier[i])],
         dominated_points |-> [i \in 1..Len(pareto.dominated) |-> plot_point(pareto.dominated[i])],
         optimal_scenario |-> IF optimal_scenario = Null THEN Null
                              ELSE plot_point(optimal_scenario),
         all_scenarios |-> SubSeq(all_scenarios, 1,
                                  IF Len(all_scenarios) < 50 THEN Len(all_scenarios) ELSE 50),
         metadata |-> [n_scenarios |-> Len(all_scenarios),
                       n_pareto |-> Len(pareto.frontier),
                       n_dominated |-> Len(pareto.dominated),
                       base_locations |-> base_locations,
                       radius_range |-> <<SeqMin(radius_range), SeqMax(radius_range)>>,
                       sla_range |-> <<SeqMin(sla_range), SeqMax(sla_range)>>]]

\* An optional argument is a sequence: <<>> for None, <<v>> for the value v.
get_pareto_sensitivity_analysis(a) ==
    LET location_data == get_base_locations
        default_bases == location_data.existing_bases \o location_data.candidate_bases
        base_locations ==
            IF a.base_locations = <<>>
            THEN [i \in 1..(IF Len(default_bases) < 3 THEN Len(default_bases) ELSE 3) |->
                     default_bases[i].name]
            ELSE a.base_locations[1]
        radius_range == range_with_upper(a.radius_min, a.radius_max, a.radius_step)
        sla_range == range_with_upper(a.sla_min, a.sla_max, a.sla_step)
    IN  Bind(generate_scenario_grid(base_locations, radius_range, sla_range, a.fleet_size,
                                    a.crews_per_vehicle, a.missions_per_vehicle_per_day),
             LAMBDA all_scenarios :
                 IF Len(all_scenarios) = 0
                 THEN [pareto_frontier |-> <<>>, dominated_points |-> <<>>,
                       optimal_scenario |-> Null, all_scenarios |-> <<>>,
                       metadata |-> [n_scenarios |-> 0, base_locations |-> base_locations]]
                 ELSE Bind(calculate_pareto_frontier(all_scenarios, TRUE),
                           LAMBDA pareto :
                               sensitivity_result(a, base_locations, radius_range, sla_range,
                                                  all_scenarios, pareto)))

---------------------------------------------------------------------------
(* Specification of the sensitivity analysis: one call over a fixed       *)
(* catalog and mission file.                                              *)

GridShapes ==
    {[radius_min |-> 20, radius_max |-> 100, radius_step |-> 10,
      sla_min |-> 10, sla_max |-> 30, sla_step |-> 5],
     [radius_min |-> 10, radius_max |-> 50, radius_step |-> 40,
      sla_min |-> 15, sla_max |-> 20, sla_step |-> 5],
     [radius_min |-> 10, radius_max |-> 60, radius_step |-> 40,
      sla_min |-> 20, sla_max |-> 22, sla_step |-> 5],
     [radius_min |-> 50, radius_max |-> 50, radius_step |-> 10,
      sla_min |-> 20, sla_max |-> 30, sla_step |-> 10]}
WeightSets == {<<>>, <<[population |-> Whole(1), sla |-> Whole(1), cost |-> Whole(1)]>>}

GridRequests ==
    {[base_locations |-> b, radius_min |-> g.radius_min, radius_max |-> g.radius_max,
      radius_step |-> g.radius_step, sla_min |-> g.sla_min, sla_max |-> g.sla_max,
      sla_step |-> g.sla_step, fleet_size |-> 3, crews_per_vehicle |-> 2,
      missions_per_vehicle_per_day |-> 3, weights |-> w] :
        b \in {<<>>, <<<<"BANGOR", "PORTLAND">>>>}, g \in GridShapes, w \in WeightSets}

InitGrid ==
    /\ catalog \in Catalogs
    /\ df \in Datasets
    /\ prev = Null
    /\ last = Null
    /\ calls = 0
    /\ faults = {}
    /\ flights = <<>>
    /\ args \in GridRequests
    /\ ret = Null

CallParetoSensitivity ==
    /\ ret = Null
    /\ ret' = get_pareto_sensitivity_analysis(args)
    /\ UNCHANGED <<engine, args>>

NextGrid == CallParetoSensitivity

SpecGrid == InitGrid /\ [][NextGrid]_vars

\* the values lo, lo + step, ... up to hi, hi included when it is reached
Stepped(lo, hi, step) == {v \in lo..(hi + step - 1) : (v - lo) % step = 0}

GridBases ==
    IF args.base_locations = <<>> THEN ret.metadata.base_locations ELSE args.base_locations[1]

NoCellFails ==
    \A b \in Range(GridBases) :
        (b \in DOMAIN catalog /\ b \in Range(existed_bases) \cup Range(top_10_cities))
            => catalog[b] # NoneCoord

\* C9: the analysis evaluates exactly one cell for every pair of a radius
\* value and an SLA-target value built from min, max and step with inclusive
\* upper bounds; for radius 20..100 step 10 and SLA 10..30 step 5 without a
\* failing cell that is 9 x 5 = 45 cells.
C9_OneCellPerGridPair ==
    (ret # Null /\ NoCellFails) =>
        LET radii == Stepped(args.radius_min, args.radius_max, args.radius_step)
            slas  == Stepped(args.sla_min, args.sla_max, args.sla_step)
        IN  /\ ret.metadata.n_scenarios = Cardinality(radii) * Cardinality(slas)
            /\ Len(ret.all_scenarios) = ret.metadata.n_scenarios
            /\ \A r \in radii, t \in slas :
                   Cardinality({k \in 1..Len(ret.all_scenarios) :
                       ret.all_scenarios[k].radius = r /\ ret.all_scenarios[k].sla_target = t}) = 1
            /\ (/\ args.radius_min = 20 /\ args.radius_max = 100 /\ args.radius_step = 10
                /\ args.sla_min = 10 /\ args.sla_max = 30 /\ args.sla_step = 5)
                   => ret.metadata.n_scenarios = 45

C9_Witness ==
    /\ ret # Null /\ NoCellFails
    /\ args.radius_min = 20 /\ args.radius_max = 100 /\ args.radius_step = 10
    /\ args.sla_min = 10 /\ args.sla_max = 30 /\ args.sla_step = 5
    /\ Len(ret.all_scenarios) = 45
    /\ ret.all_scenarios[1].radius = 20 /\ ret.all_scenarios[45].radius = 100
    /\ ret.all_scenarios[45].sla_target = 30

---------------------------------------------------------------------------
(* Specification of generate_scenario_grid: one call over a fixed catalog *)
(* and mission file, the file being unreadable during the calls of faults *)

CellCatalogs == {c \in Catalogs : DOMAIN c = {"BANGOR", "ORONO"}}
CellRadii == <<10, 50>>
CellSlas == <<15, 20>>
CellFaults == SUBSET {<<r, t>> : r \in Range(CellRadii), t \in Range(CellSlas)}

InitCells ==
    /\ catalog \in CellCatalogs
    /\ df \in Datasets
    /\ prev = Null
    /\ last = Null
    /\ calls = 0
    /\ faults \in CellFaults
    /\ flights = <<>>
    /\ args \in [base_locations : {<<"BANGOR">>, <<"PORTLAND", "NOWHERE">>},
                 radius_range : {CellRadii}, sla_range : {CellSlas},
                 fleet_size : {3}, crews_per_vehicle : {2},
                 missions_per_vehicle_per_day : {3}]
    /\ ret = Null

CallScenarioGrid ==
    /\ ret = Null
    /\ ret' = [rows |-> generate_scenario_grid(args.base_locations, args.radius_range,
                  args.sla_range, args.fleet_size, args.crews_per_vehicle,
                  args.missions_per_vehicle_per_day)]
    /\ UNCHANGED <<engine, args>>

NextCells == CallScenarioGrid

SpecCells == InitCells /\ [][NextCells]_vars

\* the (radius, sla) pairs of the grid, radius-major then SLA order
CellPairs ==
    [k \in 1..(Len(args.radius_range) * Len(args.sla_range)) |->
        <<args.radius_range[((k - 1) \div Len(args.sla_range)) + 1],
          args.sla_range[((k - 1) % Len(args.sla_range)) + 1]>>]

\* a base of the request with a null latitude makes every cell fail as soon
\* as the catalog has one located city
NullBaseFails ==
    /\ \E b \in Range(args.base_locations) :
           /\ b \in DOMAIN catalog
           /\ b \in Range(existed_bases) \cup Range(top_10_cities)
           /\ catalog[b] = NoneCoord
    /\ \E c \in DOMAIN catalog : catalog[c] # NoneCoord

CellSucceeds(pair) == pair \notin faults /\ ~NullBaseFails

\* C11: when the simulation of some cells raises, generate_scenario_grid
\* still returns, and its rows are exactly the cells whose simulation
\* succeeded, in radius-major then SLA order; no failed cell has a row.
C11_FailedCellsSkipped ==
    ret # Null =>
        LET kept == SelectSeq(CellPairs, CellSucceeds)
        IN  /\ Len(ret.rows) = Len(kept)
            /\ \A k \in 1..Len(kept) :
                   /\ <<ret.rows[k].radius, ret.rows[k].sla_target>> = kept[k]
                   /\ "failed" \notin DOMAIN ret.rows[k]
                   /\ ret.rows[k].full_result.scenario_params.service_radius_miles = kept[k][1]
                   /\ ret.rows[k].full_result.scenario_params.sla_target_minutes = kept[k][2]

C11_Witness ==
    /\ ret # Null
    /\ faults = {<<10, 15>>, <<50, 20>>}
    /\ Len(ret.rows) = 2
    /\ <<ret.rows[1].radius, ret.rows[1].sla_target>> = <<10, 20>>
    /\ <<ret.rows[2].radius, ret.rows[2].sla_target>> = <<50, 15>>

---------------------------------------------------------------------------
(* Claims on the preconditions of the simulation engine *)

\* C12: simulate_scenario called with an empty base_locations list fails
\* with an error and returns no KPI bundle.
C12_EmptyBasesFailFast ==
    (last # Null /\ last.params.base_locations = <<>>) =>
        (raised(last.result) /\ "kpis" \notin DOMAIN last.result)

---------------------------------------------------------------------------
(* scenario_whatif_2_1.compare_scenarios *)

\* one row of the comparison table; scenario_id is "Scenario <idx + 1>"
summary_row(idx, scenario) ==
    [scenario_id |-> <<"Scenario", idx + 1>>,
     fleet_size |-> scenario.scenario_params.fleet_size,
     bases |-> Len(scenario.scenario_params.base_locations),
     sla_attainment |-> scenario.kpis.sla_attainment.rate_percent,
     unmet_demand |-> scenario.kpis.unmet_demand.missions,
     total_cost |-> scenario.kpis.cost.total_cost,
     coverage_rate |-> scenario.kpis.coverage.coverage_rate]

argmax_last(keys) ==
    CHOOSE i \in 1..Len(keys) :
        /\ \A j \in 1..Len(keys) : QLe(keys[j], keys[i])
        /\ \A j \in (i + 1)..Len(keys) : QLt(keys[j], keys[i])

\* max(rows, key=...): the position of the first row with the largest key
argmax(keys) ==
    CHOOSE i \in 1..Len(keys) :
        /\ \A j \in 1..Len(keys) : QLe(keys[j], keys[i])
        /\ \A j \in 1..(i - 1) : QLt(keys[j], keys[i])

\* min(rows, key=...): the position of the first row with the smallest key
argmin(keys) ==
    CHOOSE i \in 1..Len(keys) :
        /\ \A j \in 1..Len(keys) : QLe(keys[i], keys[j])
        /\ \A j \in 1..(i - 1) : QLt(keys[i], keys[j])

\* the early return for an empty list
empty_comparison == [comparison |-> <<>>]

compare_scenarios(scenarios) ==
    IF Len(scenarios) = 0 THEN empty_comparison
    ELSE LET comparison == [i \in 1..Len(scenarios) |-> summary_row(i - 1, scenarios[i])]
             n == Len(comparison)
         IN  [comparison |-> comparison,
              best_sla |-> comparison[argmax([i \in 1..n |-> comparison[i].sla_attainment])],
              lowest_cost |-> comparison[argmin([i \in 1..n |-> Whole(comparison[i].total_cost)])],
              best_coverage |-> comparison[argmax([i \in 1..n |-> comparison[i].coverage_rate])]]

---------------------------------------------------------------------------
(* Specification of compare_scenarios: the input is a list of at most     *)
(* MaxBundles result bundles.                                              *)

MaxBundles == 3

\* the part of a simulate_scenario bundle that compare_scenarios reads
Bundles ==
    {[scenario_params |-> [fleet_size |-> 3, base_locations |-> b],
      kpis |-> [sla_attainment |-> [rate_percent |-> s],
                unmet_demand |-> [missions |-> Whole(0)],
                cost |-> [total_cost |-> Len(b) * 500000 + 780000],
                coverage |-> [coverage_rate |-> c]]] :
        b \in {<<"BANGOR">>, <<"BANGOR", "PORTLAND">>},
        s \in {Whole(0), Whole(50)},
        c \in {Whole(0), Q(100, 3)}}

InitCompare ==
    /\ Idle
    /\ args \in [scenarios : SeqsUpTo(Bundles, MaxBundles)]
    /\ ret = Null

CallCompareScenarios ==
    /\ ret = Null
    /\ ret' = compare_scenarios(args.scenarios)
    /\ UNCHANGED <<engine, args>>

NextCompare == CallCompareScenarios

SpecCompare == InitCompare /\ [][NextCompare]_vars

\* C13: compare_scenarios called with an empty list of bundles
\* raises an error instead of returning a comparison result.
C13_EmptyListRaises ==
    (ret # Null /\ args.scenarios = <<>>) => raised(ret)

\* C14: for every non-empty list of bundles there is one row per bundle in
\* input order; best_sla is the first row with the largest SLA attainment,
\* lowest_cost the first row with the smallest total cost and best_coverage
\* the first row with the largest coverage rate.
C14_RowsAndFirstBest ==
    (ret # Null /\ args.scenarios # <<>>) =>
        LET rows == ret.comparison
            n == Len(rows)
            FirstWhere(P(_)) == CHOOSE i \in 1..n : P(i) /\ \A j \in 1..(i - 1) : ~P(j)
        IN  /\ n = Len(args.scenarios)
            /\ \A i \in 1..n :
                   /\ rows[i].scenario_id = <<"Scenario", i>>
                   /\ rows[i].sla_attainment = args.scenarios[i].kpis.sla_attainment.rate_percent
                   /\ rows[i].total_cost = args.scenarios[i].kpis.cost.total_cost
                   /\ rows[i].coverage_rate = args.scenarios[i].kpis.coverage.coverage_rate
                   /\ rows[i].bases = Len(args.scenarios[i].scenario_params.base_locations)
            /\ ret.best_sla = rows[FirstWhere(LAMBDA i :
                   \A j \in 1..n : QLe(rows[j].sla_attainment, rows[i].sla_attainment))]
            /\ ret.lowest_cost = rows[FirstWhere(LAMBDA i :
                   \A j \in 1..n : rows[i].total_cost <= rows[j].total_cost)]
            /\ ret.best_coverage = rows[FirstWhere(LAMBDA i :
                   \A j \in 1..n : QLe(rows[j].coverage_rate, rows[i].coverage_rate))]

\* three bundles, the best SLA, cost and coverage each tied between two rows
C14_Witness ==
    /\ ret # Null
    /\ Len(args.scenarios) = 3
    /\ ret.best_sla.scenario_id = <<"Scenario", 2>>
    /\ ret.comparison[3].sla_attainment = ret.comparison[2].sla_attainment
    /\ QLt(ret.comparison[1].sla_attainment, ret.comparison[2].sla_attainment)
    /\ ret.lowest_cost.scenario_id = <<"Scenario", 1>>
    /\ ret.comparison[3].total_cost = ret.comparison[1].total_cost
    /\ ret.best_coverage.scenario_id = <<"Scenario", 1>>
    /\ ret.comparison[2].coverage_rate = ret.comparison[1].coverage_rate

---------------------------------------------------------------------------
(* Specification of estimate_cost: one call with counts and rates that    *)
(* may be negative.                                                        *)

CostRequests ==
    [fleet_size : {0 - 1, 0, 3}, crews_per_vehicle : {0 - 1, 2}, base_count : {0 - 1, 0, 2},
     base_operational_cost_per_year : {0 - 1, default_base_operational_cost_per_year},
     vehicle_cost_per_year : {0 - 1, default_vehicle_cost_per_year},
     crew_cost_per_year : {0 - 1, default_crew_cost_per_year}]

InitCost ==
    /\ Idle
    /\ args \in CostRequests
    /\ ret = Null

CallEstimateCost ==
    /\ ret = Null
    /\ ret' = estimate_cost(args.fleet_size, args.crews_per_vehicle, args.base_count,
                            args.base_operational_cost_per_year, args.vehicle_cost_per_year,
                            args.crew_cost_per_year)
    /\ UNCHANGED <<engine, args>>

NextCost == CallEstimateCost

SpecCost == InitCost /\ [][NextCost]_vars

\* C15: estimate_cost rejects any negative input (fleet_size,
\* crews_per_vehicle, base_count or a cost rate) with a ValueError and
\* returns no cost breakdown.
C15_NegativeInputRejected ==
    (ret # Null /\ \E f \in DOMAIN args : args[f] < 0) =>
        (raised(ret) /\ ret.raised = "ValueError" /\ "total_cost" \notin DOMAIN ret)

---------------------------------------------------------------------------
(* base_siting_2_2: coverage grid, coverage map, siting analysis *)

\* float('inf'), the initial min_distance of a grid point
Inf == [inf |-> TRUE]

\* overhead_minutes + distance / flight_speed_mph * 60 at the default 120 mph
estimate_response_time(distance) ==
    QAdd(Whole(5), Reduce(QMul(QDiv(distance, Whole(120)), Whole(60))))

\* haversine on one meridian between a grid latitude (a fraction of a grid
\* step) and a base latitude
haversine_distance(lat, base_lat) ==
    LET diff == QSub(lat, Whole(base_lat))
    IN  Reduce(QMul(Whole(GridMiles), IF diff.num < 0 THEN Q(0 - diff.num, diff.den) ELSE diff))

\* "if distance < min_distance": the first base at the least distance
closest_base_index(distances) ==
    CHOOSE i \in 1..Len(distances) :
        /\ \A j \in 1..Len(distances) : QLe(distances[i], distances[j])
        /\ \A j \in 1..(i - 1) : QLt(distances[i], distances[j])

grid_point(lat, base_locations, service_radius_miles) ==
    IF base_locations = <<>>
    THEN [latitude |-> lat, closest_base |-> Null, distance_miles |-> Inf,
          response_time_minutes |-> Null, within_radius |-> FALSE,
          coverage_5min |-> FALSE, coverage_10min |-> FALSE,
          coverage_15min |-> FALSE, coverage_20min |-> FALSE]
    ELSE LET distances == [i \in 1..Len(base_locations) |->
                              haversine_distance(lat, base_locations[i].latitude)]
             k  == closest_base_index(distances)
             rt == estimate_response_time(distances[k])
         IN  [latitude |-> lat, closest_base |-> base_locations[k].name,
              distance_miles |-> distances[k],
              response_time_minutes |-> rt,
              within_radius |-> QLe(distances[k], Whole(service_radius_miles)),
              coverage_5min |-> QLe(rt, Whole(5)), coverage_10min |-> QLe(rt, Whole(10)),
              coverage_15min |-> QLe(rt, Whole(15)), coverage_20min |-> QLe(rt, Whole(20))]

\* grid_size x grid_size points over the padded bounding box of the located
\* cities; on one meridian the points of a row differ in longitude only.
\* A base with a null latitude makes haversine_distance raise TypeError.
generate_coverage_grid(base_locations, city_coordinates, service_radius_miles, grid_size) ==
    LET all_lats == {city_coordinates[c] : c \in DOMAIN city_coordinates} \ {NoneCoord}
        min_lat == CHOOSE v \in all_lats : \A w \in all_lats : v <= w
        max_lat == CHOOSE v \in all_lats : \A w \in all_lats : w <= v
        lat(i)  == Reduce(Q((10 * min_lat - (max_lat - min_lat)) * grid_size
                                + 12 * i * (max_lat - min_lat), 10 * grid_size))
    IN  IF all_lats = {} THEN [grid |-> <<>>]
        ELSE IF grid_size > 0 /\ \E i \in 1..Len(base_locations) :
                    base_locations[i].latitude = NoneCoord
        THEN [raised |-> "TypeError"]
        ELSE [grid |-> [k \in 1..(grid_size * grid_size) |->
                           grid_point(lat((k - 1) \div grid_size), base_locations,
                                      service_radius_miles)]]

\* the map drawn over the bases; np.mean over the base latitudes raises
\* TypeError on a null latitude.  The grid is computed and not drawn.
create_coverage_map(base_locations, city_coordinates, service_radius_miles) ==
    IF \E i \in 1..Len(base_locations) : base_locations[i].latitude = NoneCoord
    THEN [raised |-> "TypeError"]
    ELSE Bind(generate_coverage_grid(base_locations, city_coordinates, service_radius_miles, 20),
              LAMBDA grid_df :
                  IF raised(grid_df) THEN grid_df
                  ELSE [markers |-> [i \in 1..Len(base_locations) |-> base_locations[i].name],
                        radius |-> service_radius_miles])

\* the dictionary returned once both scenarios are known
siting_result(a, existing_base_locations, before_scenario, after_scenario) ==
    LET has_candidate == a.candidate_base # <<>>
        sla_lift == IF has_candidate THEN calculate_sla_lift(before_scenario, after_scenario)
                    ELSE Null
        before_map == create_coverage_map(existing_base_locations, catalog, a.service_radius_miles)
        after_map == IF has_candidate
                     THEN create_coverage_map(existing_base_locations \o a.candidate_base,
                                              catalog, a.service_radius_miles)
                     ELSE Null
    IN  IF raised(before_map) THEN before_map
        ELSE IF has_candidate /\ raised(after_map) THEN after_map
        ELSE [before_scenario |-> before_scenario,
              after_scenario |-> after_scenario,
              sla_lift |-> sla_lift,
              before_map_html |-> before_map,
              after_map_html |-> after_map,
              metadata |-> [existing_bases |-> a.existing_bases,
                            candidate_base |-> a.candidate_base,
                            service_radius_miles |-> a.service_radius_miles,
                            sla_target_minutes |-> a.sla_target_minutes,
                            coverage_threshold_minutes |-> a.coverage_threshold_minutes]]

\* The candidate is an optional argument: <<>> for None, <<c>> for the
\* dictionary c with name and latitude.
get_base_siting_analysis(a) ==
    LET location_data == get_base_locations
        all_bases == location_data.existing_bases \o location_data.candidate_bases
        existing_base_locations ==
            SelectSeq(all_bases, LAMBDA b : b.name \in Range(a.existing_bases))
        scenario(bases) ==
            simulate_scenario([fleet_size |-> a.fleet_size,
                               crews_per_vehicle |-> a.crews_per_vehicle,
                               missions_per_vehicle_per_day |-> a.missions_per_vehicle_per_day,
                               base_locations |-> bases,
                               service_radius_miles |-> a.service_radius_miles,
                               sla_target_minutes |-> a.sla_target_minutes])
    IN  Bind(scenario(a.existing_bases), LAMBDA before_scenario :
            IF raised(before_scenario) THEN before_scenario
            ELSE IF a.candidate_base = <<>>
            THEN siting_result(a, existing_base_locations, before_scenario, Null)
            ELSE Bind(scenario(a.existing_bases \o <<a.candidate_base[1].name>>),
                      LAMBDA after_scenario :
                          IF raised(after_scenario) THEN after_scenario
                          ELSE siting_result(a, existing_base_locations,
                                             before_scenario, after_scenario)))

---------------------------------------------------------------------------
(* Specification of the siting analysis: one call over a fixed catalog    *)
(* and mission file.                                                       *)

SitingRequests ==
    [existing_bases : {<<>>, <<"BANGOR">>},
     candidate_base : {<<>>, <<[name |-> "NOWHERE", latitude |-> 1]>>,
                       <<[name |-> "PORTLAND", latitude |-> 0]>>},
     service_radius_miles : {10, 50}, sla_target_minutes : {20},
     fleet_size : {3}, crews_per_vehicle : {2}, missions_per_vehicle_per_day : {3},
     coverage_threshold_minutes : {20}]

InitSiting ==
    /\ catalog \in Catalogs
    /\ df \in Datasets
    /\ prev = Null
    /\ last = Null
    /\ calls = 0
    /\ faults = {}
    /\ flights = <<>>
    /\ args \in SitingRequests
    /\ ret = Null

CallBaseSitingAnalysis ==
    /\ ret = Null
    /\ ret' = get_base_siting_analysis(args)
    /\ UNCHANGED <<engine, args>>

NextSiting == CallBaseSitingAnalysis

SpecSiting == InitSiting /\ [][NextSiting]_vars

\* the catalog locations within the service radius of the candidate's
\* supplied coordinates
NearCandidate ==
    {c \in DOMAIN catalog :
        /\ catalog[c] # NoneCoord
        /\ distance_miles(args.candidate_base[1].latitude, catalog[c]) <= args.service_radius_miles}

\* C18: with a candidate given as name plus coordinates, the 'after'
\* scenario is simulated over the existing bases plus the candidate at its
\* supplied coordinates: every catalog location within the service radius
\* of the candidate is covered in 'after', and coverage_lift, sla_lift and
\* incremental_cost are the after-minus-before differences.
C18_AfterCoversAroundCandidate ==
    (ret # Null /\ ~raised(ret) /\ args.candidate_base # <<>>) =>
        /\ NearCandidate \subseteq
               UNION {Range(ret.after_scenario.coverage[b]) :
                          b \in DOMAIN ret.after_scenario.coverage}
        /\ ret.after_scenario.kpis.coverage.cities_covered >= Cardinality(NearCandidate)
        /\ ret.sla_lift.coverage_lift =
               QSub(ret.after_scenario.kpis.coverage.coverage_rate,
                    ret.before_scenario.kpis.coverage.coverage_rate)
        /\ ret.sla_lift.sla_lift_absolute =
               QSub(ret.after_scenario.kpis.sla_attainment.rate_percent,
                    ret.before_scenario.kpis.sla_attainment.rate_percent)
        /\ ret.sla_lift.incremental_cost =
               ret.after_scenario.kpis.cost.total_cost
                   - ret.before_scenario.kpis.cost.total_cost

---------------------------------------------------------------------------
(* Specification of generate_coverage_grid: one call with a list of bases *)
(* and a coordinates dictionary.                                           *)

MaxGridSize == 2

GridBaseLists ==
    {<<>>,
     <<[name |-> "BANGOR", latitude |-> 0]>>,
     <<[name |-> "BANGOR", latitude |-> 0], [name |-> "PORTLAND", latitude |-> MaxPos]>>,
     <<[name |-> "PORTLAND", latitude |-> MaxPos], [name |-> "BANGOR", latitude |-> NoneCoord]>>}

InitCoverageGrid ==
    /\ Idle
    /\ args \in [base_locations : GridBaseLists, city_coordinates : CellCatalogs \cup {<<>>},
                 service_radius_miles : {10, 50}, grid_size : {MaxGridSize}]
    /\ ret = Null

CallCoverageGrid ==
    /\ ret = Null
    /\ ret' = generate_coverage_grid(args.base_locations, args.city_coordinates,
                                     args.service_radius_miles, args.grid_size)
    /\ UNCHANGED <<engine, args>>

NextCoverageGrid == CallCoverageGrid

SpecCoverageGrid == InitCoverageGrid /\ [][NextCoverageGrid]_vars

\* a number that is neither infinite nor NaN, or null
WellDefined(v) == v = Null \/ (v # Inf /\ ~isna(v))

\* every rate and ratio of a simulate_scenario bundle
BundleWellDefined(b) ==
    /\ ~raised(b)
    /\ WellDefined(b.kpis.coverage.coverage_rate)
    /\ WellDefined(b.kpis.sla_attainment.rate_percent)
    /\ WellDefined(b.kpis.sla_attainment.avg_response_time_minutes)
    /\ WellDefined(b.kpis.unmet_demand.rate_percent)
    /\ WellDefined(b.kpis.unmet_demand.missions)
    /\ WellDefined(b.kpis.missions.covered_demand)

LiftWellDefined(l) ==
    /\ WellDefined(l.sla_lift_absolute)
    /\ WellDefined(l.sla_lift_percent)
    /\ WellDefined(l.coverage_lift)
    /\ WellDefined(l.cost_per_sla_point)

GridWellDefined(g) ==
    /\ ~raised(g)
    /\ \A k \in 1..Len(g.grid) :
           /\ WellDefined(g.grid[k].distance_miles)
           /\ WellDefined(g.grid[k].response_time_minutes)

\* the degenerate inputs of the engine: no resolved base, no located city,
\* no mission.  (A base with a null latitude is not one of them.)
NoNullBase(bases) == \A b \in Range(bases) : b \in DOMAIN catalog => catalog[b] # NoneCoord

\* C20: for every degenerate input (no mission in scope, no valid response
\* time, no covered location, empty catalog, no resolved base, before-SLA
\* of 0) every rate or ratio in the outputs of simulate_scenario,
\* calculate_sla_lift and the coverage grid is a well-defined number or
\* null: nothing raises and no infinite or undefined value appears.
C20_DegenerateWellDefined ==
    /\ (last # Null /\ NoNullBase(last.params.base_locations)) =>
           BundleWellDefined(last.result)
    /\ (ret # Null /\ "sla_lift_absolute" \in DOMAIN ret) => LiftWellDefined(ret)
    /\ (/\ ret # Null
        /\ "grid_size" \in DOMAIN args
        /\ \A i \in 1..Len(args.base_locations) : args.base_locations[i].latitude # NoneCoord)
           => GridWellDefined(ret)

---------------------------------------------------------------------------
(* app.py: the four HTTP entry points of the engine.  A request body is   *)
(* a record of the supplied keys; values arrive as numbers.                *)

\* data.get(key, default)
Get(data, key, default) == IF key \in DOMAIN data THEN data[key] ELSE default

bad_request(message) == [status |-> 400, message |-> message]
server_error(message) == [status |-> 500, message |-> message]
success(data) == [status |-> 200, data |-> data]

\* the parameters of simulate_scenario
simulate_scenario_parameters ==
    {"fleet_size", "crews_per_vehicle", "missions_per_vehicle_per_day", "base_locations",
     "service_radius_miles", "sla_target_minutes", "base_coordinates"}

\* simulate_scenario(**kwargs): a keyword that is no parameter raises TypeError
simulate_scenario_kw(kwargs) ==
    IF ~(DOMAIN kwargs \subseteq simulate_scenario_parameters)
    THEN [raised |-> "TypeError"]
    ELSE simulate_scenario(kwargs)

\* the keyword arguments both scenario handlers build from a body
scenario_kwargs(data) ==
    [fleet_size |-> Get(data, "fleet_size", 3),
     missions_per_vehicle_per_day |-> Get(data, "missions_per_vehicle_per_day", 3),
     crews_per_vehicle |-> Get(data, "crews_per_vehicle", 2),
     base_locations |-> Get(data, "base_locations", <<"BANGOR">>),
     service_radius_miles |-> Get(data, "service_radius_miles", 50),
     sla_target_minutes |-> Get(data, "sla_target_minutes", 20),
     base_operational_cost_per_year |->
         Get(data, "base_operational_cost_per_year", default_base_operational_cost_per_year),
     vehicle_cost_per_year |-> Get(data, "vehicle_cost_per_year", default_vehicle_cost_per_year),
     crew_cost_per_year |-> Get(data, "crew_cost_per_year", default_crew_cost_per_year)]

simulate_scenario_api(data) ==
    IF DOMAIN data = {} THEN bad_request("Request body is required")
    ELSE LET kw == scenario_kwargs(data)
         IN  IF kw.fleet_size < 1 \/ kw.fleet_size > 20
             THEN bad_request("fleet_size must be between 1 and 20")
             ELSE IF kw.crews_per_vehicle < 1 \/ kw.crews_per_vehicle > 5
             THEN bad_request("crews_per_vehicle must be between 1 and 5")
             ELSE IF kw.service_radius_miles < 10 \/ kw.service_radius_miles > 200
             THEN bad_request("service_radius_miles must be between 10 and 200")
             ELSE IF kw.sla_target_minutes < 5 \/ kw.sla_target_minutes > 60
             THEN bad_request("sla_target_minutes must be between 5 and 60")
             ELSE Bind(simulate_scenario_kw(kw), LAMBDA result :
                      IF ~raised(result) THEN success(result)
                      ELSE IF result.raised = "ValueError"
                      THEN bad_request("Invalid parameter")
                      ELSE server_error("Failed to simulate scenario"))

compare_scenarios_api(data) ==
    IF DOMAIN data = {} \/ "scenarios" \notin DOMAIN data
    THEN bad_request("scenarios array is required")
    ELSE IF Len(data.scenarios) < 1
    THEN bad_request("At least one scenario is required")
    ELSE Bind([i \in 1..Len(data.scenarios) |->
                   simulate_scenario_kw(scenario_kwargs(data.scenarios[i]))],
              LAMBDA simulated_scenarios :
                  IF \E i \in 1..Len(simulated_scenarios) : raised(simulated_scenarios[i])
                  THEN server_error("Failed to compare scenarios")
                  ELSE success([comparison |-> compare_scenarios(simulated_scenarios),
                                scenarios |-> simulated_scenarios]))

\* {k: v / total} when the values sum to more than 0, the dictionary as it
\* came otherwise
normalize_weights(weights) ==
    LET total == QAdd(QAdd(weights.population, weights.sla), weights.cost)
    IN  IF QLt(Whole(0), total)
        THEN [k \in DOMAIN weights |-> Reduce(QDiv(weights[k], total))]
        ELSE weights

get_pareto_sensitivity_api(data) ==
    LET weights == IF "weights" \in DOMAIN data THEN <<normalize_weights(data.weights)>>
                   ELSE <<>>
    IN  success(get_pareto_sensitivity_analysis(
            [base_locations |-> <<Get(data, "base_locations", <<"BANGOR", "PORTLAND">>)>>,
             radius_min |-> Get(data, "radius_min", 20),
             radius_max |-> Get(data, "radius_max", 100),
             radius_step |-> Get(data, "radius_step", 10),
             sla_min |-> Get(data, "sla_min", 10),
             sla_max |-> Get(data, "sla_max", 30),
             sla_step |-> Get(data, "sla_step", 5),
             fleet_size |-> Get(data, "fleet_size", 3),
             crews_per_vehicle |-> Get(data, "crews_per_vehicle", 2),
             missions_per_vehicle_per_day |-> Get(data, "missions_per_vehicle_per_day", 3),
             weights |-> weights]))

get_base_siting_api(data) ==
    Bind(get_base_siting_analysis(
             [existing_bases |-> Get(data, "existing_bases", <<"BANGOR">>),
              candidate_base |-> IF "candidate_base" \in DOMAIN data
                                 THEN <<data.candidate_base>> ELSE <<>>,
              service_radius_miles |-> Get(data, "service_radius_miles", 50),
              sla_target_minutes |-> Get(data, "sla_target_minutes", 20),
              fleet_size |-> Get(data, "fleet_size", 3),
              crews_per_vehicle |-> Get(data, "crews_per_vehicle", 2),
              missions_per_vehicle_per_day |-> Get(data, "missions_per_vehicle_per_day", 3),
              coverage_threshold_minutes |-> Get(data, "coverage_threshold_minutes", 20)]),
         LAMBDA result :
             IF raised(result) THEN server_error("Failed to get base siting analysis")
             ELSE success(result))

---------------------------------------------------------------------------
(* Specification of the entry points: one request over a fixed catalog    *)
(* and mission file.                                                       *)

ApiCatalogs ==
    {<<>>, [c \in {"BANGOR", "ORONO"} |-> IF c = "BANGOR" THEN 0 ELSE MaxPos],
     [c \in CityNames |-> IF c = "BANGOR" THEN 0 ELSE MaxPos]}

RateOverrides ==
    [base_operational_cost_per_year |-> 600000, vehicle_cost_per_year |-> 150000,
     crew_cost_per_year |-> 90000]

SimulateBodies ==
    {<<>>}
    \cup [fleet_size : {0, 3}, crews_per_vehicle : {2}, base_locations : {<<"BANGOR">>},
          service_radius_miles : {5, 50}, sla_target_minutes : {20}]
    \cup {b @@ RateOverrides :
            b \in [fleet_size : {0, 3}, crews_per_vehicle : {2}, base_locations : {<<"BANGOR">>},
                   service_radius_miles : {5, 50}, sla_target_minutes : {20}]}

CompareBodies ==
    {[note |-> "no scenarios key"]}
    \cup [scenarios : SeqsUpTo([fleet_size : {3, 21}, base_locations : {<<"BANGOR">>},
                                service_radius_miles : {50}], 2)]

WeightChoices ==
    {[population |-> Whole(p), sla |-> Whole(s), cost |-> Whole(c)] :
        p \in {0, 1}, s \in {0, 3}, c \in {0, 2}}

ParetoBodies ==
    LET shapes == [base_locations : {<<"BANGOR">>}, fleet_size : {3, 21},
                   radius_min : {5, 10}, radius_max : {50}, radius_step : {40},
                   sla_min : {15}, sla_max : {20}, sla_step : {5}]
    IN  shapes \cup {b @@ [weights |-> w] : b \in shapes, w \in WeightChoices}

SitingBodies ==
    LET plain == [existing_bases : {<<"BANGOR">>}, fleet_size : {0, 3},
                  service_radius_miles : {5, 50}]
    IN  plain \cup {b @@ [candidate_base |-> [name |-> "ORONO", latitude |-> MaxPos]] :
                       b \in plain}

ApiRequests ==
    [endpoint : {"scenario_simulate"}, data : SimulateBodies]
    \cup [endpoint : {"scenario_compare"}, data : CompareBodies]
    \cup [endpoint : {"pareto_sensitivity"}, data : ParetoBodies]
    \cup [endpoint : {"base_siting"}, data : SitingBodies]

InitApi ==
    /\ catalog \in ApiCatalogs
    /\ df \in Datasets
    /\ prev = Null
    /\ last = Null
    /\ calls = 0
    /\ faults = {}
    /\ flights = <<>>
    /\ args \in ApiRequests
    /\ ret = Null

SimulateScenarioApi ==
    /\ ret = Null
    /\ args.endpoint = "scenario_simulate"
    /\ ret' = simulate_scenario_api(args.data)
    /\ UNCHANGED <<engine, args>>

CompareScenariosApi ==
    /\ ret = Null
    /\ args.endpoint = "scenario_compare"
    /\ ret' = compare_scenarios_api(args.data)
    /\ UNCHANGED <<engine, args>>

ParetoSensitivityApi ==
    /\ ret = Null
    /\ args.endpoint = "pareto_sensitivity"
    /\ ret' = get_pareto_sensitivity_api(args.data)
    /\ UNCHANGED <<engine, args>>

BaseSitingApi ==
    /\ ret = Null
    /\ args.endpoint = "base_siting"
    /\ ret' = get_base_siting_api(args.data)
    /\ UNCHANGED <<engine, args>>

NextApi ==
    \/ SimulateScenarioApi
    \/ CompareScenariosApi
    \/ ParetoSensitivityApi
    \/ BaseSitingApi

SpecApi == InitApi /\ [][NextApi]_vars

---------------------------------------------------------------------------
(* Claims on the entry points *)

\* fleet_size outside 1..20, service radius outside 10..200 or SLA target
\* outside 5..60
ParamsOutOfRange(fleet_size, radius_lo, radius_hi, sla_lo, sla_hi) ==
    \/ fleet_size < 1 \/ fleet_size > 20
    \/ radius_lo < 10 \/ radius_hi > 200
    \/ sla_lo < 5 \/ sla_hi > 60

ScenarioOutOfRange(d) ==
    ParamsOutOfRange(Get(d, "fleet_size", 3),
                     Get(d, "service_radius_miles", 50), Get(d, "service_radius_miles", 50),
                     Get(d, "sla_target_minutes", 20), Get(d, "sla_target_minutes", 20))

RequestOutOfRange ==
    CASE args.endpoint = "scenario_simulate" ->
             DOMAIN args.data # {} /\ ScenarioOutOfRange(args.data)
      [] args.endpoint = "scenario_compare" ->
             /\ "scenarios" \in DOMAIN args.data
             /\ \E i \in 1..Len(args.data.scenarios) : ScenarioOutOfRange(args.data.scenarios[i])
      [] args.endpoint = "pareto_sensitivity" ->
             ParamsOutOfRange(Get(args.data, "fleet_size", 3),
                              Get(args.data, "radius_min", 20), Get(args.data, "radius_max", 100),
                              Get(args.data, "sla_min", 10), Get(args.data, "sla_max", 30))
      [] args.endpoint = "base_siting" -> ScenarioOutOfRange(args.data)

\* C16: each of the four entry points rejects a request whose fleet_size is
\* outside 1..20, service radius outside 10..200 or SLA target outside
\* 5..60 as bad input (400) before any simulation, and never accepts it.
C16_OutOfRangeRejected ==
    (ret # Null /\ RequestOutOfRange) =>
        (ret.status = 400 /\ "data" \notin DOMAIN ret)

\* C17: a simulation request that supplies the base, vehicle and crew cost
\* rates succeeds, and the cost section of its bundle is computed with the
\* supplied rates: base_count * base_rate + fleet_size * vehicle_rate
\* + fleet_size * crews * crew_rate.
C17_CostRateOverridesUsed ==
    (/\ ret # Null
     /\ args.endpoint = "scenario_simulate"
     /\ "crew_cost_per_year" \in DOMAIN args.data
     /\ ~ScenarioOutOfRange(args.data)) =>
        /\ ret.status = 200
        /\ ret.data.kpis.cost.base_cost =
               Len(args.data.base_locations) * args.data.base_operational_cost_per_year
        /\ ret.data.kpis.cost.vehicle_cost =
               args.data.fleet_size * args.data.vehicle_cost_per_year
        /\ ret.data.kpis.cost.crew_cost =
               args.data.fleet_size * args.data.crews_per_vehicle * args.data.crew_cost_per_year
        /\ ret.data.kpis.cost.total_cost =
               ret.data.kpis.cost.base_cost + ret.data.kpis.cost.vehicle_cost
                   + ret.data.kpis.cost.crew_cost

\* the weights divided by their sum (as supplied when the sum is 0)
SumToOne(w) ==
    LET total == w.population.num + w.sla.num + w.cost.num
    IN  IF total > 0 THEN [k \in DOMAIN w |-> Reduce(Q(w[k].num, total))] ELSE w

\* w_population * coverage/100 + w_sla * sla/100 + w_cost * (1 - min(1, cost/10,000,000))
StatedScore(s, w) ==
    LET cost_share == IF s.total_cost >= 10000000 THEN Whole(1)
                      ELSE Reduce(Q(s.total_cost, 10000000))
    IN  QAdd(QAdd(Reduce(QMul(w.population, Reduce(QDiv(s.coverage_rate, Whole(100))))),
                  Reduce(QMul(w.sla, Reduce(QDiv(s.sla_attainment, Whole(100)))))),
             Reduce(QMul(w.cost, Reduce(QSub(Whole(1), cost_share)))))

WeightedRequest ==
    /\ ret # Null
    /\ args.endpoint = "pareto_sensitivity"
    /\ "weights" \in DOMAIN args.data
    /\ ret.status = 200
    /\ ret.data.metadata.n_scenarios > 0

\* C19: the weights are brought to sum 1, every point is scored as stated,
\* the first point with the largest score is returned, and the pick is the
\* same when all weights are multiplied by one positive constant.
C19_WeightedPickScaleFree ==
    WeightedRequest =>
        LET w == SumToOne(args.data.weights)
            points == ret.data.all_scenarios
            best == CHOOSE i \in 1..Len(points) :
                       /\ \A j \in 1..Len(points) :
                              QLe(StatedScore(points[j], w), StatedScore(points[i], w))
                       /\ \A j \in 1..(i - 1) :
                              QLt(StatedScore(points[j], w), StatedScore(points[i], w))
            scaled(c) == [args.data EXCEPT !.weights =
                             [k \in DOMAIN args.data.weights |->
                                 QMul(Whole(c), args.data.weights[k])]]
        IN  /\ ret.data.optimal_scenario # Null
            /\ ret.data.optimal_scenario = plot_point(points[best])
            /\ \A c \in {2, 7} :
                   get_pareto_sensitivity_api(scaled(c)).data.optimal_scenario
                       = ret.data.optimal_scenario

\* weights 1 : 3 : 0 pick the second point, radius 10 with SLA target 20
C19_Witness ==
    /\ WeightedRequest
    /\ args.data.weights = [population |-> Whole(1), sla |-> Whole(3), cost |-> Whole(0)]
    /\ Len(ret.data.all_scenarios) = 4
    /\ ret.data.optimal_scenario.radius = 10
    /\ ret.data.optimal_scenario.sla_target = 20
    /\ QEq(ret.data.optimal_scenario.coverage_rate, Whole(50))
    /\ QLt(ret.data.optimal_scenario.coverage_rate, ret.data.all_scenarios[3].coverage_rate)

---------------------------------------------------------------------------
(* Claims on the weighted pick and the frontier *)

\* the points of the returned frontier that are the cell (radius, sla_target)
OnFrontier(result, point) ==
    \E i \in 1..Len(result.pareto_frontier) :
        /\ result.pareto_frontier[i].radius = point.radius
        /\ result.pareto_frontier[i].sla_target = point.sla_target

\* C21: whenever weights are supplied and the grid is not empty, the optimal
\* scenario returned by the sensitivity analysis is one of the points of the
\* returned Pareto frontier.
C21_OptimalIsOnFrontier ==
    WeightedRequest =>
        /\ ret.data.optimal_scenario # Null
        /\ OnFrontier(ret.data, ret.data.optimal_scenario)

---------------------------------------------------------------------------
(* Specification of one simulate_scenario call over a mission file that   *)
(* may hold rows without a date, with and without vehicles.               *)

DemandRows == MissionRows \cup {[city |-> "BANGOR", tdate |-> NaT, disptime |-> 0, enrtime |-> 20]}
DemandDatasets == SeqsUpTo(DemandRows, MaxMissions)

DemandRequests ==
    [fleet_size : {0, 3}, crews_per_vehicle : {2}, missions_per_vehicle_per_day : {3},
     base_locations : {<<"BANGOR">>}, service_radius_miles : {10, 50},
     sla_target_minutes : {20}]

InitDemand ==
    /\ catalog \in CellCatalogs
    /\ df \in DemandDatasets
    /\ prev = Null
    /\ last = Null
    /\ calls = 0
    /\ faults = {}
    /\ flights = <<>>
    /\ args \in DemandRequests
    /\ ret = Null

CallSimulateScenario ==
    /\ ret = Null
    /\ ret' = simulate_scenario(args)
    /\ UNCHANGED <<engine, args>>

NextDemand == CallSimulateScenario

SpecDemand == InitDemand /\ [][NextDemand]_vars

\* the rows of the mission file dated in its most recent year
MostRecentYearRows ==
    {i \in 1..Len(df) : /\ df[i].tdate # NaT
                        /\ \A j \in 1..Len(df) : df[j].tdate # NaT => df[j].tdate <= df[i].tdate}

\* C22: the demand of the unmet-demand estimate is the number of mission
\* rows dated in the most recent year of the file, times the share of
\* cities covered; unmet missions are that demand less the capacity, at
\* least 0; the count of all rows is reported apart as historical_annual.
C22_DemandIsLastYearTimesCoverage ==
    (ret # Null /\ ~raised(ret)) =>
        LET demand == Q(Cardinality(MostRecentYearRows) * ret.kpis.coverage.cities_covered,
                        ret.kpis.coverage.total_cities)
            excess == QSub(demand, ret.kpis.missions.estimated_capacity)
        IN  /\ ret.kpis.missions.last_year_missions = Cardinality(MostRecentYearRows)
            /\ ret.kpis.missions.historical_annual = Len(df)
            /\ QEq(ret.kpis.missions.covered_demand, demand)
            /\ QEq(ret.kpis.unmet_demand.missions,
                   IF QLt(excess, Whole(0)) THEN Whole(0) ELSE excess)

\* two rows of different years, one of two cities covered, no vehicle: the
\* demand is 1 * 1/2 and all of it is unmet, while the file holds 2 rows
C22_Witness ==
    /\ ret # Null /\ ~raised(ret)
    /\ Len(df) = 2 /\ df[1].tdate = 2023 /\ df[2].tdate = 2024
    /\ args.fleet_size = 0
    /\ ret.kpis.coverage.cities_covered = 1 /\ ret.kpis.coverage.total_cities = 2
    /\ ret.kpis.missions.historical_annual = 2
    /\ QEq(ret.kpis.missions.covered_demand, Q(1, 2))
    /\ QEq(ret.kpis.unmet_demand.missions, Q(1, 2))

---------------------------------------------------------------------------
(* scenario/get_special_base_stats and scenario/get_range_map: statistics  *)
(* of a special base (asset type).  A transport row holds its state, its  *)
(* asset, its pickup city and the minutes from enrtime to atstime.        *)

\* heatmap.get_city_coordinates() declares no parameter
get_city_coordinates_parameters == {}

\* the coordinates file, or the TypeError of a call with a keyword argument
\* that the function does not declare
get_city_coordinates_kw(kwargs) ==
    IF kwargs \subseteq get_city_coordinates_parameters THEN [coords |-> catalog]
    ELSE [raised |-> "TypeError"]

\* read_data('FlightTransportsMaster.csv') filtered to Maine and one asset
center_rows(center_type) ==
    SelectSeq(flights, LAMBDA row : row.state = "Maine" /\ row.asset = center_type)

\* value_counts().index[0]: the most frequent pickup city, the first met among equals
main_city(rows) ==
    LET count(c) == Cardinality({i \in 1..Len(rows) : rows[i].city = c})
        first == CHOOSE i \in 1..Len(rows) :
                     /\ \A j \in 1..Len(rows) : count(rows[j].city) <= count(rows[i].city)
                     /\ \A j \in 1..(i - 1) : count(rows[j].city) < count(rows[i].city)
    IN  rows[first].city

\* round(value, n) with scale = 10^n: the nearest multiple, halves to even
round_to(q, scale) ==
    LET x == q.num * scale
        f == x \div q.den
        twice == 2 * (x - f * q.den)
        k == IF twice > q.den THEN f + 1
             ELSE IF twice < q.den THEN f
             ELSE IF f % 2 = 0 THEN f ELSE f + 1
    IN  Reduce(Q(k, scale))

RECURSIVE sorted_values(_)
sorted_values(s) ==
    IF s = <<>> THEN <<>>
    ELSE LET init == sorted_values(SubSeq(s, 1, Len(s) - 1))
             v    == s[Len(s)]
             k    == Cardinality({i \in 1..Len(init) : QLe(init[i], v)})
         IN  SubSeq(init, 1, k) \o <<v>> \o SubSeq(init, k + 1, Len(init))

\* Series.median(): the middle value, or the mean of the two middle values;
\* NaN for an empty series
median(s) ==
    LET v == sorted_values(s)
        n == Len(v)
    IN  IF n = 0 THEN NaN
        ELSE IF n % 2 = 1 THEN v[(n + 1) \div 2]
        ELSE Reduce(QDiv(QAdd(v[n \div 2], v[(n \div 2) + 1]), Whole(2)))

RECURSIVE SumQ(_)
SumQ(s) == IF s = <<>> THEN Whole(0) ELSE QAdd(s[1], SumQ(Tail(s)))

\* the rows kept by get_special_base_data after the coordinates are loaded:
\* both cities in the file, 0 < minutes < 400, distance > 0, speed < 1000 mph
processed_rows(rows, city_coordinates) ==
    LET base_city == main_city(rows)
        located == SelectSeq(rows, LAMBDA row :
                       base_city \in DOMAIN city_coordinates /\ row.city \in DOMAIN city_coordinates)
        measured == [i \in 1..Len(located) |->
                        [city |-> located[i].city,
                         time_diff_minutes |-> Whole(located[i].minutes),
                         distance |-> distance_miles(city_coordinates[base_city],
                                                      city_coordinates[located[i].city])]]
        cleaned == SelectSeq(measured, LAMBDA row :
                       /\ row.time_diff_minutes.num > 0 /\ row.time_diff_minutes.num < 400
                       /\ row.distance > 0)
        with_speed == [i \in 1..Len(cleaned) |->
                          [city |-> cleaned[i].city,
                           time_diff_minutes |-> cleaned[i].time_diff_minutes,
                           distance |-> cleaned[i].distance,
                           speed |-> Reduce(Q(cleaned[i].distance * 60,
                                              cleaned[i].time_diff_minutes.num))]]
    IN  SelectSeq(with_speed, LAMBDA row : QLt(row.speed, Whole(1000)))

\* a null latitude reaches radians() in calculate_distance
processed_raises(rows, city_coordinates) ==
    LET base_city == main_city(rows)
    IN  /\ base_city \in DOMAIN city_coordinates
        /\ \E i \in 1..Len(rows) :
               /\ rows[i].city \in DOMAIN city_coordinates
               /\ NoneCoord \in {city_coordinates[base_city], city_coordinates[rows[i].city]}

\* get_special_base_data(center_type)
get_special_base_data(center_type) ==
    LET rows == center_rows(center_type)
        city_coordinates == get_city_coordinates_kw({"isOnlyMaine"})
    IN  IF rows = <<>> THEN [rows |-> <<>>]
        ELSE IF raised(city_coordinates) THEN city_coordinates
        ELSE IF processed_raises(rows, city_coordinates.coords) THEN [raised |-> "TypeError"]
        ELSE [rows |-> processed_rows(rows, city_coordinates.coords)]

\* assign_nearest_base: the least distance to a base within the radius, Null
\* when no base is within the radius
pickup_distance_miles(row, base_locations, radius_miles, city_coords) ==
    LET near == {distance_miles(base_locations[i].latitude, city_coords[row.city]) :
                     i \in 1..Len(base_locations)}
        within == {dist \in near : dist <= radius_miles}
    IN  IF within = {} THEN Null
        ELSE Whole(CHOOSE dist \in within : \A e \in within : dist <= e)

\* lines 335-337: distance / median speed * 60, rounded to 3 places
estimated_time_minutes(distance, median_speed) ==
    round_to(QDiv(QMul(distance, Whole(60)), median_speed), 1000)

no_tasks == [total_tasks |-> 0, compliant_tasks |-> 0, compliance_rate |-> Whole(0),
             avg_response_time |-> Whole(0)]

\* get_range_map.calculate_compliance_rate(df, expected_time)
calculate_compliance_rate(rows, expected_time) ==
    IF Len(rows) = 0 THEN no_tasks
    ELSE LET compliant == SelectSeq(rows, LAMBDA row :
                              QLe(row.time_diff_minutes, Whole(expected_time)))
             times == [i \in 1..Len(rows) |-> rows[i].time_diff_minutes]
         IN  [total_tasks |-> Len(rows),
              compliant_tasks |-> Len(compliant),
              compliance_rate |-> round_to(Q(Len(compliant) * 100, Len(rows)), 100),
              avg_response_time |-> round_to(QDiv(SumQ(times), Whole(Len(rows))), 100)]

\* get_range_map.calculate_coverage_stats: cities within the radius per base
calculate_coverage_stats(base_locations, radius_miles, city_coords) ==
    [name \in {base_locations[i].name : i \in 1..Len(base_locations)} |->
        LET base == CHOOSE b \in Range(base_locations) : b.name = name
        IN  Cardinality({c \in DOMAIN city_coords :
                /\ city_coords[c] # NoneCoord
                /\ distance_miles(base.latitude, city_coords[c]) <= radius_miles})]

\* city.upper().strip()
upper_strip(city) ==
    CASE city = "orono " -> "ORONO"
      [] city = "bangor" -> "BANGOR"
      [] OTHER -> city

nothing_to_report ==
    [coverage_stats |-> <<>>, compliance_stats |-> no_tasks, speed_stats |-> <<>>,
     processed_data |-> <<>>]

\* whether the observed minutes of the tasks within the radius are replaced
\* by estimates: "if base_cities_list and len(df_within_radius) > 0 and
\* median_speed > 0", base_cities_list being the list of bases in use
estimates_used(base_cities_list, df_within_radius, median_speed) ==
    base_cities_list # <<>> /\ Len(df_within_radius) > 0 /\ QLt(Whole(0), median_speed)

\* lines 221-228: the supplied names normalised and kept when the file has
\* them, else the main base city; supplied is <<>> for None, <<list>> for a list
bases_in_use(supplied, main_base_city, city_coords) ==
    LET normalized == IF supplied = <<>> THEN <<>>
                      ELSE [i \in 1..Len(supplied[1]) |-> upper_strip(supplied[1][i])]
    IN  IF normalized # <<>>
        THEN SelectSeq(normalized, LAMBDA city : city \in DOMAIN city_coords)
        ELSE IF main_base_city \in DOMAIN city_coords THEN <<main_base_city>> ELSE <<>>

located_bases(base_cities_list, city_coords) ==
    [i \in 1..Len(base_cities_list) |->
        [name |-> base_cities_list[i], latitude |-> city_coords[base_cities_list[i]]]]

\* lines 275-277: the median of the speeds, 0.0 when it is NaN or not positive
median_speed_of(rows) ==
    LET found == median([i \in 1..Len(rows) |-> rows[i].speed])
    IN  IF isna(found) \/ QLe(found, Whole(0)) THEN Whole(0) ELSE found

\* lines 302-327: every processed row with its distance to the nearest base
\* within the radius
assign_nearest_base(rows, base_locations, radius_miles, city_coords) ==
    [i \in 1..Len(rows) |->
        [city |-> rows[i].city,
         time_diff_minutes |-> rows[i].time_diff_minutes,
         distance |-> rows[i].distance,
         speed |-> rows[i].speed,
         pickup_distance_miles |->
             pickup_distance_miles(rows[i], base_locations, radius_miles, city_coords)]]

assigned_to_a_base(row) == row.pickup_distance_miles # Null

\* the statistics once the coordinates and the processed rows are at hand
\* (lines 220-368)
special_base_statistics(supplied, main_base_city, city_coords, df_processed, radius_miles, expected_time) ==
    LET base_cities_list == bases_in_use(supplied, main_base_city, city_coords)
        base_locations == located_bases(base_cities_list, city_coords)
        coverage_stats == calculate_coverage_stats(base_locations, radius_miles, city_coords)
        median_speed == median_speed_of(df_processed.rows)
        speed_stats == [median_speed_mph |-> round_to(median_speed, 100)]
        assigned == assign_nearest_base(df_processed.rows, base_locations, radius_miles,
                                        city_coords)
        df_within_radius == SelectSeq(assigned, assigned_to_a_base)
        timed == IF estimates_used(base_cities_list, df_within_radius, median_speed)
                 THEN [i \in 1..Len(df_within_radius) |->
                          [df_within_radius[i] EXCEPT !.time_diff_minutes =
                              estimated_time_minutes(df_within_radius[i].pickup_distance_miles,
                                                     median_speed)]]
                 ELSE df_within_radius
    IN  IF base_cities_list = <<>> THEN nothing_to_report
        ELSE IF coverage_raises(base_locations, city_coords)
        THEN [raised |-> "TypeError"]
        ELSE IF raised(df_processed) THEN df_processed
        ELSE IF df_processed.rows = <<>>
        THEN [coverage_stats |-> coverage_stats, compliance_stats |-> no_tasks,
              speed_stats |-> <<>>, processed_data |-> <<>>]
        ELSE [coverage_stats |-> coverage_stats,
              compliance_stats |-> calculate_compliance_rate(timed, expected_time),
              speed_stats |-> speed_stats,
              processed_data |-> assigned]

\* calculate_special_base_statistics(center_type, radius_miles, expected_time,
\* base_cities_list)
calculate_special_base_statistics(a) ==
    LET df_center == center_rows(a.center_type)
        city_coords == get_city_coordinates_kw({"isOnlyMaine"})
    IN  IF df_center = <<>> THEN nothing_to_report
        ELSE IF raised(city_coords) THEN city_coords
        ELSE special_base_statistics(a.base_cities_list, main_city(df_center), city_coords.coords,
                                     get_special_base_data(a.center_type),
                                     a.radius_miles, a.expected_time)

---------------------------------------------------------------------------
(* Specification of the special-base statistics: one call over a fixed    *)
(* coordinates file and transport file.                                   *)

MaxFlights == 2

FlightRows ==
    {[state |-> "Maine", asset |-> "B-CCT", city |-> "ORONO", minutes |-> 60],
     [state |-> "Maine", asset |-> "B-CCT", city |-> "BANGOR", minutes |-> 30],
     [state |-> "Maine", asset |-> "B-CCT", city |-> "BANGOR", minutes |-> 40],
     [state |-> "Maine", asset |-> "B-CCT", city |-> "BANGOR", minutes |-> 0 - 5],
     [state |-> "Maine", asset |-> "L-CCT", city |-> "ORONO", minutes |-> 30],
     [state |-> "New Hampshire", asset |-> "B-CCT", city |-> "ORONO", minutes |-> 30]}

SpecialRequests ==
    [center_type : {"B-CCT"}, radius_miles : {10, 50}, expected_time : {20, 45},
     base_cities_list : {<<>>, <<<<>>>>, <<<<"orono ">>>>, <<<<"bangor", "NOWHERE">>>>}]

InitSpecial ==
    /\ catalog \in CellCatalogs
    /\ df = <<>>
    /\ prev = Null
    /\ last = Null
    /\ calls = 0
    /\ faults = {}
    /\ flights \in SeqsUpTo(FlightRows, MaxFlights)
    /\ args \in SpecialRequests
    /\ ret = Null

CallSpecialBaseStatistics ==
    /\ ret = Null
    /\ ret' = calculate_special_base_statistics(args)
    /\ UNCHANGED <<engine, args>>

NextSpecial == CallSpecialBaseStatistics

SpecSpecial == InitSpecial /\ [][NextSpecial]_vars

\* the situation the statistics are about: rows of the asset, every city of
\* the coordinates file located, a task within the radius of a base in use
\* and a positive median speed
NewBasesGiven == args.base_cities_list # <<>> /\ args.base_cities_list[1] # <<>>

TasksOfCenter ==
    LET rows == center_rows(args.center_type)
        bases == located_bases(bases_in_use(args.base_cities_list, main_city(rows), catalog),
                               catalog)
    IN  SelectSeq(assign_nearest_base(processed_rows(rows, catalog), bases,
                                      args.radius_miles, catalog),
                  assigned_to_a_base)

MedianSpeedOfCenter == median_speed_of(processed_rows(center_rows(args.center_type), catalog))

TasksInReach ==
    /\ center_rows(args.center_type) # <<>>
    /\ \A c \in DOMAIN catalog : catalog[c] # NoneCoord
    /\ TasksOfCenter # <<>>
    /\ QLt(Whole(0), MedianSpeedOfCenter)

\* estimate_response_time(d, speed): 5 + d / speed * 60, to 3 places
StatedEstimate(d, speed) == round_to(QAdd(Whole(5), QDiv(QMul(d, Whole(60)), speed)), 1000)

\* C23: with new base cities, the time of a task at distance d from its base
\* is d / median speed * 60 + 5 minutes, and the compliance statistics are
\* those of these times.
C23_EstimateIsSpeedFormulaWithOverhead ==
    (ret # Null /\ NewBasesGiven /\ TasksInReach) =>
        LET stated == [i \in 1..Len(TasksOfCenter) |->
                          [time_diff_minutes |->
                               StatedEstimate(TasksOfCenter[i].pickup_distance_miles,
                                              MedianSpeedOfCenter)]]
        IN  /\ ~raised(ret)
            /\ ret.compliance_stats = calculate_compliance_rate(stated, args.expected_time)

\* C29: without new base cities (list absent or empty) the compliance
\* statistics are those of the observed minutes of the tasks within the
\* radius of the main base city.
C29_ObservedTimesWithoutNewBases ==
    (ret # Null /\ ~NewBasesGiven /\ TasksInReach) =>
        /\ ~raised(ret)
        /\ ret.compliance_stats = calculate_compliance_rate(TasksOfCenter, args.expected_time)

---------------------------------------------------------------------------
(* Claims on the response times of calculate_sla_attainment *)

\* rows in scope whose two times of day parse, whatever their date
TimesOfDayParse ==
    {i \in 1..Len(args.data) :
        /\ args.data[i].city \in args.coverage_cities
        /\ args.data[i].disptime # BadTime
        /\ args.data[i].enrtime # BadTime}

RECURSIVE SumOfMinutes(_, _)
SumOfMinutes(rows, n) ==
    IF n = 0 THEN 0
    ELSE (IF n \in rows THEN Minutes(n) ELSE 0) + SumOfMinutes(rows, n - 1)

\* the response times in use are those of rows: their count is the count of
\* valid times and their mean, each time taken modulo 1440, is the average
ResponseTimesAreOf(rows) ==
    /\ ret.total_missions = Cardinality(rows)
    /\ \A i \in rows : 0 <= Minutes(i) /\ Minutes(i) < 1440
    /\ QEq(ret.avg_response_time_minutes, Q(SumOfMinutes(rows, Len(args.data)), Cardinality(rows)))
    /\ QLe(Whole(0), ret.avg_response_time_minutes)
    /\ QLt(ret.avg_response_time_minutes, Whole(1440))

---------------------------------------------------------------------------
(* Claims on the two lists of calculate_pareto_frontier *)

Occurrences(s, p) == Cardinality({i \in 1..Len(s) : s[i] = p})

\* C25: the frontier and the dominated list partition the input: every input
\* scenario is in exactly one of them as often as it is in the input, so the
\* two lengths add up to the length of the input, also when a scenario has a
\* NaN or negative metric.
C25_ListsPartitionInput ==
    ret # Null =>
        /\ Len(ret.frontier) + Len(ret.dominated) = Len(args.scenarios)
        /\ \A p \in Range(args.scenarios) :
               Occurrences(ret.frontier, p) + Occurrences(ret.dominated, p)
                   = Occurrences(args.scenarios, p)

---------------------------------------------------------------------------
(* Claims on the cost of a simulated scenario *)

\* C26: the number of bases charged in the cost section, base_cost divided by
\* the base rate, is the number of distinct bases that were resolved to
\* coordinates and used for the coverage, also for a list with an
\* unresolvable name.
C26_ChargedBasesAreResolvedBases ==
    (last # Null /\ ~raised(last.result)) =>
        /\ last.result.kpis.cost.base_cost % default_base_operational_cost_per_year = 0
        /\ last.result.kpis.cost.base_cost \div default_base_operational_cost_per_year
               = Cardinality(DOMAIN last.result.coverage_details)

---------------------------------------------------------------------------
(* Claims on the cells of the sensitivity analysis *)

InDominated(result, point) ==
    \E i \in 1..Len(result.dominated_points) :
        /\ result.dominated_points[i].radius = point.radius
        /\ result.dominated_points[i].sla_target = point.sla_target

\* C27: two cells of the grid with the same radius and different SLA targets
\* have the same coverage_rate and the same avg_response_time and are
\* classified alike, both on the frontier or both dominated.
C27_SameRadiusSameClass ==
    (ret # Null /\ ret.metadata.n_scenarios > 0) =>
        \A i, j \in 1..Len(ret.all_scenarios) :
            LET p == ret.all_scenarios[i]
                q == ret.all_scenarios[j]
            IN  (p.radius = q.radius /\ p.sla_target # q.sla_target) =>
                    /\ QEq(p.coverage_rate, q.coverage_rate)
                    /\ QEq(p.avg_response_time, q.avg_response_time)
                    /\ OnFrontier(ret, p) <=> OnFrontier(ret, q)
                    /\ InDominated(ret, p) <=> InDominated(ret, q)
                    /\ OnFrontier(ret, p) <=> ~InDominated(ret, p)

\* radius 10 with SLA targets 15 and 20: both cells dominated by the cells of
\* radius 50, with measured response times of which one meets the target 20
C27_Witness ==
    /\ ret # Null /\ ret.metadata.n_scenarios = 4
    /\ ret.all_scenarios[1].radius = 10 /\ ret.all_scenarios[2].radius = 10
    /\ ret.all_scenarios[1].sla_target = 15 /\ ret.all_scenarios[2].sla_target = 20
    /\ QLt(Whole(0), ret.all_scenarios[1].avg_response_time)
    /\ QLt(ret.all_scenarios[1].sla_attainment, ret.all_scenarios[2].sla_attainment)
    /\ InDominated(ret, ret.all_scenarios[1]) /\ InDominated(ret, ret.all_scenarios[2])
    /\ OnFrontier(ret, ret.all_scenarios[3]) /\ OnFrontier(ret, ret.all_scenarios[4])

\* the missions evaluated for the SLA of cell k
Evaluated(k) == ret.all_scenarios[k].full_result.kpis.sla_attainment.total_evaluated

\* C28: when at least one cell of the grid has an evaluated mission, every
\* point of the returned frontier has one: a cell whose avg_response_time is
\* the 0.0 of an empty SLA evaluation is not on the frontier.
C28_FrontierCellsAreMeasured ==
    (/\ ret # Null
     /\ ret.metadata.n_scenarios > 0
     /\ \E k \in 1..Len(ret.all_scenarios) : Evaluated(k) > 0) =>
        \A k \in 1..Len(ret.all_scenarios) :
            OnFrontier(ret, ret.all_scenarios[k]) => Evaluated(k) > 0

\* C30: every cell evaluated has radius_min <= radius <= radius_max and
\* sla_min <= sla_target <= sla_max, also when max - min is not a multiple of
\* the step, and the reported radius_range and sla_range do not exceed the
\* requested maxima.
C30_CellsWithinRequestedRanges ==
    (ret # Null /\ ret.metadata.n_scenarios > 0) =>
        /\ \A k \in 1..Len(ret.all_scenarios) :
               /\ args.radius_min <= ret.all_scenarios[k].radius
               /\ ret.all_scenarios[k].radius <= args.radius_max
               /\ args.sla_min <= ret.all_scenarios[k].sla_target
               /\ ret.all_scenarios[k].sla_target <= args.sla_max
        /\ ret.metadata.radius_range[1] >= args.radius_min
        /\ ret.metadata.radius_range[2] <= args.radius_max
        /\ ret.metadata.sla_range[1] >= args.sla_min
        /\ ret.metadata.sla_range[2] <= args.sla_max

===========================================================================
